---- MODULE Spec2Model ----
(***************************************************************************)
(* Render-session lifecycle of the GLSL viewer plugin: ShaderCompiler,     *)
(* TextureManager, GLSLRenderer (src/src/core) and the plugin's session    *)
(* registry (src/main.ts and its earlier revision src/unnamed/part_012).   *)
(***************************************************************************)
EXTENDS Integers, Sequences, FiniteSets, TLC

(***************************************************************************)
(* Bounds of the model.                                                    *)
(***************************************************************************)
NumSessions == 2
NumViewers == 2
MaxCap == 1
MaxRemovals == 1
MaxFrames == 7
MaxPluginFrames == 2
MaxDestroyCalls == 2
MaxLoads == 2
MaxLogLen == 3
MaxRerenders == 1

\* character codes a driver log is drawn from: NUL, TAB, LF, ESC, space, 'E', DEL
LogChars == {0, 9, 10, 27, 32, 69, 127}

(***************************************************************************)
(* IEEE-754 binary64 arithmetic, as far as `currentTime += frameDelta`     *)
(* needs it.  A finite non-negative number is a record [e, b]: b is the    *)
(* significand as a sequence of bits, most significant first, and e the    *)
(* exponent of its last bit; zero has no bits.  A double has exactly       *)
(* MantissaBits bits.                                                      *)
(***************************************************************************)
MantissaBits == 53

FpZero == [e |-> 0, b |-> <<>>]

Zeros(n) == [i \in 1..n |-> 0]

StripLead(bits) ==
    LET ones == {i \in 1..Len(bits) : bits[i] = 1}
    IN IF ones = {} THEN <<>>
       ELSE SubSeq(bits, CHOOSE i \in ones : \A j \in ones : i <= j, Len(bits))

\* sum of two bit strings of the same length, one bit longer than they are;
\* CarryInto(i) is the carry out of the positions to the right of position i
AddBits(a, b) ==
    LET n == Len(a)
        CarryInto(i) ==
            IF \E j \in (i + 1)..n :
                   /\ a[j] = 1 /\ b[j] = 1
                   /\ \A k \in (i + 1)..(j - 1) : a[k] + b[k] = 1
            THEN 1 ELSE 0
    IN [i \in 1..(n + 1) |->
           IF i = 1 THEN CarryInto(0)
           ELSE (a[i - 1] + b[i - 1] + CarryInto(i - 1)) % 2]

\* the exact sum of two numbers
ExactAdd(x, y) ==
    IF x.b = <<>> THEN y
    ELSE IF y.b = <<>> THEN x
    ELSE LET e  == IF x.e < y.e THEN x.e ELSE y.e
             xb == x.b \o Zeros(x.e - e)
             yb == y.b \o Zeros(y.e - e)
             n  == IF Len(xb) > Len(yb) THEN Len(xb) ELSE Len(yb)
             xa == Zeros(n - Len(xb)) \o xb
             ya == Zeros(n - Len(yb)) \o yb
         IN [e |-> e, b |-> StripLead(AddBits(xa, ya))]

\* round to nearest, ties to even, to a significand of MantissaBits bits
RoundToDouble(x) ==
    IF x.b = <<>> THEN FpZero
    ELSE IF Len(x.b) <= MantissaBits
    THEN [e |-> x.e - (MantissaBits - Len(x.b)),
          b |-> x.b \o Zeros(MantissaBits - Len(x.b))]
    ELSE LET k    == Len(x.b) - MantissaBits
             kept == SubSeq(x.b, 1, MantissaBits)
             rest == SubSeq(x.b, MantissaBits + 1, Len(x.b))
             more == \E i \in 2..k : rest[i] = 1
             up   == rest[1] = 1 /\ (more \/ kept[MantissaBits] = 1)
             inc  == AddBits(kept, Zeros(MantissaBits - 1) \o <<1>>)
         IN IF ~up THEN [e |-> x.e + k, b |-> kept]
            ELSE IF inc[1] = 1
                 THEN [e |-> x.e + k + 1, b |-> SubSeq(inc, 1, MantissaBits)]
                 ELSE [e |-> x.e + k, b |-> Tail(inc)]

\* x + y as JavaScript computes it
FpAdd(x, y) == RoundToDouble(ExactAdd(x, y))

\* the binary expansion of 1/n: MantissaBits + 1 significant bits, the number of
\* zero bits after the point before them, and whether a remainder is left
RECURSIVE RecipBits(_, _, _, _)
RecipBits(n, r, bits, lead) ==
    IF Len(bits) = MantissaBits + 1
    THEN [bits |-> bits, lead |-> lead, sticky |-> IF r # 0 THEN 1 ELSE 0]
    ELSE LET bit == IF 2 * r >= n THEN 1 ELSE 0
             r2  == 2 * r - bit * n
         IN IF bits = <<>> /\ bit = 0
            THEN RecipBits(n, r2, bits, lead + 1)
            ELSE RecipBits(n, r2, Append(bits, bit), lead)

\* 1.0 / n as JavaScript computes it
FpRecip(n) ==
    LET d == RecipBits(n, 1, <<>>, 0)
    IN RoundToDouble([e |-> 0 - (d.lead + MantissaBits + 2),
                      b |-> d.bits \o <<d.sticky>>])

\* the exact product n * x of a natural number and a number
RECURSIVE ExactTimes(_, _)
ExactTimes(n, x) == IF n = 0 THEN FpZero ELSE ExactAdd(ExactTimes(n - 1, x), x)

\* n * x as JavaScript computes it
FpTimes(n, x) == RoundToDouble(ExactTimes(n, x))

targetFPS == 60
frameDelta == FpRecip(targetFPS)

(***************************************************************************)
(* The WebGL context, as far as object lifetimes go: for every shader,     *)
(* program and texture object created on it, the number of delete calls    *)
(* made on it (an object is alive while that number is 0), and the number  *)
(* of linkProgram calls.  A handle is the object's index.                  *)
(***************************************************************************)
NewContext == [shaders |-> <<>>, programs |-> <<>>, textures |-> <<>>, links |-> 0]

GlCreateShader(g)  == [g EXCEPT !.shaders = Append(@, 0)]
GlCreateProgram(g) == [g EXCEPT !.programs = Append(@, 0)]
GlCreateTexture(g) == [g EXCEPT !.textures = Append(@, 0)]
GlDeleteShader(g, h)  == [g EXCEPT !.shaders[h] = @ + 1]
GlDeleteProgram(g, h) == [g EXCEPT !.programs[h] = @ + 1]
GlDeleteTexture(g, h) == [g EXCEPT !.textures[h] = @ + 1]
GlLinkProgram(g) == [g EXCEPT !.links = @ + 1]

(***************************************************************************)
(* ShaderCompiler.  A diagnostic is the concatenation of a literal prefix, *)
(* a literal text and a sequence of character codes taken from a driver    *)
(* log or an exception message.                                            *)
(***************************************************************************)
NoError == [prefix |-> "", lit |-> "", log |-> <<>>]

\* /[\x00-\x08\x0B\x0C\x0E-\x1F\x7F-\x9F]/
IsRemoved(c) == c \in 0..8 \/ c = 11 \/ c = 12 \/ c \in 14..31 \/ c \in 127..159

\* what String.prototype.trim takes for white space, among the codes below 256
IsSpace(c) == c \in {9, 10, 11, 12, 13, 32, 160}

trim(str) ==
    LET solid == {i \in 1..Len(str) : ~IsSpace(str[i])}
    IN IF solid = {} THEN <<>>
       ELSE SubSeq(str, CHOOSE i \in solid : \A j \in solid : i <= j,
                        CHOOSE i \in solid : \A j \in solid : i >= j)

cleanErrorMessage(str) == trim(SelectSeq(str, LAMBDA c : ~IsRemoved(c)))

\* getShaderInfoLog(shader) || 'Unknown compilation error', cleaned
CleanedLog(raw, unknown) ==
    IF raw = <<>> THEN [prefix |-> "", lit |-> unknown, log |-> <<>>]
    ELSE [prefix |-> "", lit |-> "", log |-> cleanErrorMessage(raw)]

\* createShader on context g; the driver returns no object when isNull, and
\* compiles the source when ok, leaving raw as the info log
createShader(g, isNull, ok, raw) ==
    IF isNull
    THEN [success |-> FALSE, shader |-> 0, gl |-> g,
          error |-> [prefix |-> "", lit |-> "Failed to create shader", log |-> <<>>]]
    ELSE LET g1 == GlCreateShader(g)
             h  == Len(g1.shaders)
         IN IF ~ok
            THEN [success |-> FALSE, shader |-> 0, gl |-> GlDeleteShader(g1, h),
                  error |-> CleanedLog(raw, "Unknown compilation error")]
            ELSE [success |-> TRUE, shader |-> h, gl |-> g1, error |-> NoError]

\* createProgram that returns on a link failure without deleting the program
createProgramKeepsProgram(g, in) ==
    LET vertexResult == createShader(g, in.vsNull, in.vsOk, in.log)
        fragmentResult == createShader(vertexResult.gl, in.fsNull, in.fsOk, in.log)
        g2 == GlCreateProgram(fragmentResult.gl)
        program == Len(g2.programs)
        g3 == GlLinkProgram(g2)
    IN IF ~vertexResult.success
       THEN [success |-> FALSE, program |-> 0, gl |-> vertexResult.gl,
             error |-> [vertexResult.error EXCEPT !.prefix = "Vertex shader error:\n"]]
       ELSE IF ~fragmentResult.success
       THEN [success |-> FALSE, program |-> 0, gl |-> fragmentResult.gl,
             error |-> [fragmentResult.error EXCEPT !.prefix = "Fragment shader error:\n"]]
       ELSE IF in.progNull
       THEN [success |-> FALSE, program |-> 0, gl |-> fragmentResult.gl,
             error |-> [prefix |-> "", lit |-> "Failed to create WebGL program",
                        log |-> <<>>]]
       ELSE IF ~in.linkOk
       THEN [success |-> FALSE, program |-> 0, gl |-> g3,
             error |-> [CleanedLog(in.log, "Unknown link error")
                           EXCEPT !.prefix = "Program link error:\n"]]
       ELSE [success |-> TRUE, program |-> program, error |-> NoError,
             gl |-> GlDeleteShader(GlDeleteShader(g3, vertexResult.shader),
                                   fragmentResult.shader)]

\* createProgram that creates and links the program before it looks at the
\* fragment stage's result
createProgramLinksFirst(g, in) ==
    LET vertexResult == createShader(g, in.vsNull, in.vsOk, in.log)
        fragmentResult == createShader(vertexResult.gl, in.fsNull, in.fsOk, in.log)
        g2 == GlCreateProgram(fragmentResult.gl)
        program == Len(g2.programs)
        g3 == GlLinkProgram(g2)
    IN IF ~vertexResult.success
       THEN [success |-> FALSE, program |-> 0, gl |-> vertexResult.gl,
             error |-> [vertexResult.error EXCEPT !.prefix = "Vertex shader error:\n"]]
       ELSE IF ~fragmentResult.success
       THEN [success |-> FALSE, program |-> 0, gl |-> GlDeleteProgram(g3, program),
             error |-> [fragmentResult.error EXCEPT !.prefix = "Fragment shader error:\n"]]
       ELSE IF ~in.linkOk
       THEN [success |-> FALSE, program |-> 0,
             gl |-> GlDeleteProgram(g3, program),
             error |-> [CleanedLog(in.log, "Unknown link error")
                           EXCEPT !.prefix = "Program link error:\n"]]
       ELSE [success |-> TRUE, program |-> program, error |-> NoError,
             gl |-> GlDeleteShader(GlDeleteShader(g3, vertexResult.shader),
                                   fragmentResult.shader)]

createProgram(g, in) ==
    LET vertexResult == createShader(g, in.vsNull, in.vsOk, in.log)
        fragmentResult == createShader(vertexResult.gl, in.fsNull, in.fsOk, in.log)
        g2 == GlCreateProgram(fragmentResult.gl)
        program == Len(g2.programs)
        g3 == GlLinkProgram(g2)
    IN IF ~vertexResult.success
       THEN [success |-> FALSE, program |-> 0, gl |-> vertexResult.gl,
             error |-> [vertexResult.error EXCEPT !.prefix = "Vertex shader error:\n"]]
       ELSE IF ~fragmentResult.success
       THEN [success |-> FALSE, program |-> 0, gl |-> fragmentResult.gl,
             error |-> [fragmentResult.error EXCEPT !.prefix = "Fragment shader error:\n"]]
       ELSE IF in.progNull
       THEN [success |-> FALSE, program |-> 0, gl |-> fragmentResult.gl,
             error |-> [prefix |-> "", lit |-> "Failed to create WebGL program",
                        log |-> <<>>]]
       ELSE IF ~in.linkOk
       THEN [success |-> FALSE, program |-> 0,
             gl |-> GlDeleteProgram(g3, program),
             error |-> [CleanedLog(in.log, "Unknown link error")
                           EXCEPT !.prefix = "Program link error:\n"]]
       ELSE [success |-> TRUE, program |-> program, error |-> NoError,
             gl |-> GlDeleteShader(GlDeleteShader(g3, vertexResult.shader),
                                   fragmentResult.shader)]

\* compileProgram: when in.throws, the first WebGL call raises an exception whose
\* message is in.log, and the catch clause returns the message as it is
compileProgram(g, in) ==
    IF in.throws
    THEN [success |-> FALSE, program |-> 0, gl |-> g,
          error |-> [prefix |-> "", lit |-> "", log |-> in.log]]
    ELSE createProgram(g, in)

\* what the driver may do during one compileProgram call
DriverCases(logs) ==
    [vsNull : BOOLEAN, vsOk : BOOLEAN, fsNull : BOOLEAN, fsOk : BOOLEAN,
     progNull : BOOLEAN, linkOk : BOOLEAN, throws : BOOLEAN, log : logs]

RawLogs == UNION {[1..n -> LogChars] : n \in 0..MaxLogLen}

(***************************************************************************)
(* State.                                                                  *)
(***************************************************************************)
VARIABLES
    compileIn,        \* ShaderCompiler alone: what the driver does in the call
    compileOut,       \* ShaderCompiler alone: the call's result and the context after it
    renderer,         \* the fields of each GLSLRenderer
    textureManager,   \* the fields of each renderer's TextureManager
    images,           \* per renderer and channel, the Image decodes in flight
    gl,               \* the WebGL context of each renderer's canvas
    raf,              \* per renderer, the ids of its scheduled frame callbacks
    history,          \* per renderer, what has been done to it (not program state)
    activeViewers,    \* GLSLViewerPlugin.activeViewers
    plugin,           \* the plugin: settings.maxActiveViewers, the revision of main.ts
                      \* at work, whether onunload has run
    task,             \* each createGLSLViewer call: where it is suspended, its config
    controls,         \* the ControlsManager of each createGLSLViewer call
    dom,              \* per viewer, whether its canvas is in the document
    records,          \* per renderer, whether its MutationObserver has a record queued
    mouse,            \* a renderer's mouse fields and the last event its canvas got
    parsing,          \* parseShaderConfig: the config so far and the line just parsed
    settings          \* the settings tab: maxActiveViewers and the last input made

vars == <<compileIn, compileOut, renderer, textureManager, images, gl, raf, history,
          activeViewers, plugin, task, controls, dom, records, mouse,
          parsing, settings>>

Sessions == 1..NumSessions
Viewers == 1..NumViewers
Channels == 0..3

\* the channels loadTexture is called for on a renderer alone: two, so that a
\* load has another channel to disturb
LoadChannels == {0, 1}

\* the sizes an image is drawn from
ImageSizes == {<<64, 32>>, <<256, 256>>}

(***************************************************************************)
(* GLSLRenderer and TextureManager.  Their methods are operators from the  *)
(* state of the sessions, a record w of the variables they touch, to the   *)
(* state after the call.                                                   *)
(***************************************************************************)
World == [r |-> renderer, tm |-> textureManager, img |-> images, gl |-> gl,
          raf |-> raf, h |-> history, av |-> activeViewers, rec |-> records,
          t |-> task, c |-> controls]

Commit(w) ==
    /\ renderer' = w.r
    /\ textureManager' = w.tm
    /\ images' = w.img
    /\ gl' = w.gl
    /\ raf' = w.raf
    /\ history' = w.h
    /\ activeViewers' = w.av
    /\ records' = w.rec
    /\ task' = w.t
    /\ controls' = w.c

NoRenderer ==
    [constructed |-> FALSE, isDestroyed |-> FALSE, refs |-> FALSE, canvas |-> 0,
     program |-> 0, animationId |-> 0, currentTime |-> FpZero, frameCount |-> 0,
     eventListeners |-> 0, domObserver |-> FALSE, observing |-> FALSE]

NoTextures ==
    [textures |-> [c \in Channels |-> 0],
     textureResolutions |-> [c \in Channels |-> <<>>]]

\* history.played and history.still are recorded by the actions of SpecClock

NoHistory == [destroyCalls |-> 0, lateGl |-> FALSE, renders |-> -1, loads |-> 0,
              liveAtConstruct |-> 0, resumed |-> FALSE, played |-> FALSE, still |-> FALSE,
              registeredAt |-> 0, loaded |-> "none", blind |-> FALSE,
              lastGood |-> [c \in Channels |-> <<>>]]

\* a WebGL call made for session s: history records one made after destroy()
Touch(w, s) == [w EXCEPT !.h[s].lateGl = @ \/ w.r[s].isDestroyed]

\* new GLSLRenderer(canvas, app, plugin), canvas being that of viewer v; the
\* observer is put on canvas.parentNode when the canvas has one
construct(w, s, v, hasParent) ==
    [w EXCEPT !.r[s] = [NoRenderer EXCEPT !.constructed = TRUE, !.refs = TRUE,
                                          !.canvas = v, !.eventListeners = 4,
                                          !.domObserver = TRUE,
                                          !.observing = hasParent],
              !.h[s].liveAtConstruct =
                  Cardinality({x \in w.av : ~w.r[x].isDestroyed}),
              !.tm[s] = NoTextures,
              !.gl[s] = NewContext]

\* load(fragmentShader), the driver behaving as in
load(w, s, in) ==
    LET result == compileProgram(w.gl[s], in)
        w1 == [Touch(w, s) EXCEPT !.gl[s] = result.gl]
    IN IF ~result.success THEN w1
       ELSE [w1 EXCEPT !.r[s].program = result.program]

\* the draw calls of render and renderAtTime: history records one issued with no
\* program in use
Draw(w, s) == [Touch(w, s) EXCEPT !.h[s].blind = @ \/ w.r[s].program = 0]

\* render() that counts the frame without stepping the time
renderCountsOnly(w, s) ==
    IF w.r[s].program = 0 \/ ~w.r[s].refs THEN w
    ELSE [Draw(w, s) EXCEPT
             !.r[s].frameCount = @ + 1,
             !.h[s].renders = IF @ < 0 THEN @ ELSE @ + 1]

render(w, s) ==
    IF w.r[s].program = 0 \/ ~w.r[s].refs THEN w
    ELSE [Draw(w, s) EXCEPT
             !.r[s].currentTime = FpAdd(@, frameDelta),
             !.r[s].frameCount = @ + 1,
             !.h[s].renders = IF @ < 0 THEN @ ELSE @ + 1]

\* renderAtTime that sets its uniforms and draws whatever the renderer holds
renderAtTimeUnguarded(w, s) == Draw(w, s)

\* renderAtTime that steps the frame clock as render does
renderAtTimeSteps(w, s) == render(w, s)

renderAtTime(w, s) ==
    IF w.r[s].program = 0 \/ ~w.r[s].refs THEN w
    ELSE Draw(w, s)

\* requestAnimationFrame hands out an id that no scheduled callback has
FreshId(ids) == CHOOSE i \in 1..(Cardinality(ids) + 1) : i \notin ids

\* animate() that schedules the next frame without rendering this one
animateSchedulesOnly(w, s) ==
    LET id == FreshId(w.raf[s])
    IN [w EXCEPT !.r[s].animationId = id, !.raf[s] = @ \cup {id}]

animate(w, s) ==
    LET w1 == render(w, s)
        id == FreshId(w1.raf[s])
    IN [w1 EXCEPT !.r[s].animationId = id, !.raf[s] = @ \cup {id}]

\* play() that starts a loop whether or not one is running
playAgain(w, s) ==
    LET fresh == w.r[s].frameCount = 0
        w1 == IF fresh
              THEN [w EXCEPT !.r[s].currentTime = FpZero,
                             !.h[s].renders = IF w.r[s].program # 0 THEN 0 ELSE @]
              ELSE [w EXCEPT !.h[s].resumed = @ \/ w.r[s].program # 0]
    IN animate(w1, s)

\* play() that zeroes the time on every start of the loop
playAlwaysResets(w, s) ==
    IF w.r[s].animationId # 0 THEN w
    ELSE animate([w EXCEPT !.r[s].currentTime = FpZero,
                           !.h[s].renders = IF w.r[s].frameCount = 0 /\ w.r[s].program # 0
                                            THEN 0 ELSE @,
                           !.h[s].resumed = @ \/ (w.r[s].frameCount # 0
                                                  /\ w.r[s].program # 0)], s)

play(w, s) ==
    IF w.r[s].animationId # 0 THEN w
    ELSE LET fresh == w.r[s].frameCount = 0
             w1 == IF fresh
                   THEN [w EXCEPT !.r[s].currentTime = FpZero,
                                  !.h[s].renders = IF w.r[s].program # 0 THEN 0 ELSE @]
                   ELSE [w EXCEPT !.h[s].resumed = @ \/ w.r[s].program # 0]
         IN animate(w1, s)

\* pause() that forgets the id without cancelling the frame
pauseForgets(w, s) == [w EXCEPT !.r[s].animationId = 0]

pause(w, s) ==
    IF w.r[s].animationId = 0 THEN w
    ELSE [w EXCEPT !.raf[s] = @ \ {w.r[s].animationId}, !.r[s].animationId = 0]

\* captureFrame and captureAtTime, up to the canvas.toBlob they end with
captureFrame(w, s) ==
    IF w.r[s].program = 0 \/ ~w.r[s].refs THEN w ELSE render(w, s)

captureAtTime(w, s) ==
    IF w.r[s].program = 0 \/ ~w.r[s].refs THEN w ELSE renderAtTime(w, s)

\* what the promise of captureFrame or captureAtTime can resolve to: null at the
\* guard, else what canvas.toBlob hands to its callback
captureResolves(w, s) ==
    IF w.r[s].program = 0 \/ ~w.r[s].refs THEN {"null"} ELSE {"blob", "null"}

\* GLSLRenderer.loadTexture, up to img.src = resolvedPath: a decode is in flight
\* history.loaded is what the promise settled last resolved to
loadTexture(w, s, c) ==
    IF ~w.r[s].refs THEN [w EXCEPT !.h[s].loaded = "false"]
    ELSE [w EXCEPT !.img[s][c] = @ + 1, !.h[s].loads = @ + 1]

\* TextureManager.bindTextures: the channels it binds a texture for
bindTextures(tm) == {c \in Channels : tm.textures[c] # 0}

\* TextureManager.getTextureResolution(`iChannel${c}`)
getTextureResolution(tm, c) ==
    IF tm.textureResolutions[c] = <<>> THEN <<0, 0, 0>> ELSE tm.textureResolutions[c]

\* img.onload that stores the texture and its resolution under the next channel
imageLoadedShifted(w, s, c, size, isNull) ==
    LET w1 == [Touch(w, s) EXCEPT !.img[s][c] = @ - 1]
        g  == GlCreateTexture(w1.gl[s])
        d  == (c + 1) % 4
    IN IF isNull THEN [w1 EXCEPT !.h[s].loaded = "false"]
       ELSE [w1 EXCEPT !.gl[s] = g,
                       !.tm[s].textures[d] = Len(g.textures),
                       !.tm[s].textureResolutions[d] = <<size[1], size[2], 1>>,
                       !.h[s].loaded = "true",
                       !.h[s].lastGood[c] = size]

\* img.onload of a decode into channel c; createTexture returns no object when
\* isNull.  history.lastGood is the size of the image of the last load that
\* succeeded, per channel, since the textures were last released.
imageLoaded(w, s, c, size, isNull) ==
    LET w1 == [Touch(w, s) EXCEPT !.img[s][c] = @ - 1]
        g  == GlCreateTexture(w1.gl[s])
    IN IF isNull THEN [w1 EXCEPT !.h[s].loaded = "false"]
       ELSE [w1 EXCEPT !.gl[s] = g,
                       !.tm[s].textures[c] = Len(g.textures),
                       !.tm[s].textureResolutions[c] = <<size[1], size[2], 1>>,
                       !.h[s].loaded = "true",
                       !.h[s].lastGood[c] = size]

\* img.onerror that binds a texture for the broken image before it resolves false
imageFailedBinds(w, s, c) ==
    LET g == GlCreateTexture(w.gl[s])
    IN [w EXCEPT !.img[s][c] = @ - 1, !.h[s].loaded = "false", !.gl[s] = g,
                 !.tm[s].textures[c] = Len(g.textures)]

\* img.onerror
imageFailed(w, s, c) == [w EXCEPT !.img[s][c] = @ - 1, !.h[s].loaded = "false"]

\* TextureManager.destroy: deleteTexture on every value of this.textures
RECURSIVE DeleteTextures(_, _)
DeleteTextures(g, hs) ==
    IF hs = {} THEN g
    ELSE LET h == CHOOSE x \in hs : TRUE
         IN DeleteTextures(GlDeleteTexture(g, h), hs \ {h})

destroyTextures(w, s) ==
    LET held == {w.tm[s].textures[c] : c \in Channels} \ {0}
    IN [w EXCEPT !.gl[s] = DeleteTextures(@, held), !.tm[s] = NoTextures,
                 !.h[s].lastGood = NoHistory.lastGood]

\* this.activeViewers.add(renderer): a Set keeps its members in the order they were
\* added, which registeredAt records
register(w, s) ==
    IF s \in w.av THEN w
    ELSE LET last == CHOOSE n \in {0} \cup {w.h[x].registeredAt : x \in w.av} :
                         \A x \in w.av : w.h[x].registeredAt <= n
         IN [w EXCEPT !.av = @ \cup {s}, !.h[s].registeredAt = last + 1]

\* destroy() that leaves the renderer in the registry
destroyKeepsEntry(w, s) ==
    LET w0 == [w EXCEPT !.h[s].destroyCalls = @ + 1]
    IN IF w.r[s].isDestroyed THEN w0
       ELSE LET w1 == pause([w0 EXCEPT !.r[s].isDestroyed = TRUE], s)
                w2 == [w1 EXCEPT !.r[s].eventListeners = 0, !.r[s].domObserver = FALSE,
                                 !.r[s].observing = FALSE, !.rec[s] = FALSE]
                w3 == IF w2.r[s].refs THEN destroyTextures(w2, s) ELSE w2
                w4 == IF w3.r[s].program # 0 /\ w3.r[s].refs
                      THEN [w3 EXCEPT !.gl[s] = GlDeleteProgram(@, w3.r[s].program),
                                      !.r[s].program = 0]
                      ELSE w3
            IN [w4 EXCEPT !.r[s].refs = FALSE, !.r[s].canvas = 0]

\* destroy() that takes the renderer out of the registry before anything else
destroyStepsRegistryFirst(w, s) ==
    LET w1 == pause([w EXCEPT !.r[s].isDestroyed = TRUE, !.av = @ \ {s}], s)
        w2 == [w1 EXCEPT !.r[s].eventListeners = 0, !.r[s].domObserver = FALSE,
                         !.r[s].observing = FALSE, !.rec[s] = FALSE]
        w3 == IF w2.r[s].refs THEN destroyTextures(w2, s) ELSE w2
        w4 == IF w3.r[s].program # 0 /\ w3.r[s].refs
              THEN [w3 EXCEPT !.gl[s] = GlDeleteProgram(@, w3.r[s].program),
                              !.r[s].program = 0]
              ELSE w3
        w5 == [w4 EXCEPT !.r[s].refs = FALSE, !.r[s].canvas = 0]
    IN <<w1, w2, w3, w4, w5>>

\* the states destroy() of a renderer not yet destroyed goes through: after
\* this.pause(), after the listeners and the observer, after
\* textureManager.destroy(), after deleteProgram, and at its end
destroySteps(w, s) ==
    LET w1 == pause([w EXCEPT !.r[s].isDestroyed = TRUE], s)
        w2 == [w1 EXCEPT !.r[s].eventListeners = 0, !.r[s].domObserver = FALSE,
                         !.r[s].observing = FALSE, !.rec[s] = FALSE]
        w3 == IF w2.r[s].refs THEN destroyTextures(w2, s) ELSE w2
        w4 == IF w3.r[s].program # 0 /\ w3.r[s].refs
              THEN [w3 EXCEPT !.gl[s] = GlDeleteProgram(@, w3.r[s].program),
                              !.r[s].program = 0]
              ELSE w3
        w5 == [w4 EXCEPT !.av = @ \ {s}, !.r[s].refs = FALSE, !.r[s].canvas = 0]
    IN <<w1, w2, w3, w4, w5>>

destroy(w, s) ==
    LET w0 == [w EXCEPT !.h[s].destroyCalls = @ + 1]
    IN IF w.r[s].isDestroyed THEN w0 ELSE destroySteps(w0, s)[5]

(***************************************************************************)
(* Initial states.                                                         *)
(***************************************************************************)
NoPlugin == [maxActiveViewers |-> 1, revision |-> "main.ts", unloaded |-> FALSE,
             rerenders |-> 0, hostFault |-> FALSE]

IdleDriver ==
    [vsNull |-> FALSE, vsOk |-> TRUE, fsNull |-> FALSE, fsOk |-> TRUE,
     progNull |-> FALSE, linkOk |-> TRUE, throws |-> FALSE, log |-> <<>>]

NoCompile == [done |-> FALSE, result |-> [success |-> FALSE, program |-> 0,
                                          gl |-> NewContext, error |-> NoError]]

NoTask == [pc |-> "idle", viewer |-> 0, autoplay |-> FALSE, error |-> "none"]

\* awaiting: the renderers whose recreation a play() of the controller awaits,
\* suspended at the template read; binding: those suspended at the texture loads;
\* stopped: stop() was invoked and the play overlay has not been clicked since;
\* stoppedSessions: the renderers stop() has destroyed
NoControls == [attached |-> FALSE, isPlaying |-> FALSE, glslRenderer |-> 0,
               awaiting |-> {}, binding |-> {}, stopped |-> FALSE,
               stoppedSessions |-> {}]

(***************************************************************************)
(* Mouse tracking of one renderer (setupMouseTracking).  An event carries   *)
(* its button and its client coordinates; rect is what                     *)
(* canvas.getBoundingClientRect() returns and canvas the size of the       *)
(* drawing buffer.  The sides of rect are powers of two, so that the        *)
(* quotient the code forms in binary64 is exact and equals the one here.    *)
(***************************************************************************)
rect == [left |-> 1, right |-> 3, top |-> 1, bottom |-> 2]
canvas == [width |-> 4, height |-> 2]

ClientXs == (rect.left - 1)..(rect.right + 1)
ClientYs == (rect.top - 1)..(rect.bottom + 1)
Buttons == {0, 2}
NoEvent == [kind |-> "none", button |-> 0, clientX |-> 0, clientY |-> 0]
MouseEvents ==
    [kind : {"mousedown", "mouseup", "mousemove"}, button : Buttons,
     clientX : ClientXs, clientY : ClientYs]

abs(n) == IF n < 0 THEN 0 - n ELSE n

calcMouseX(ev) ==
    ((ev.clientX - rect.left) * canvas.width) \div (rect.right - rect.left)

calcMouseY(ev) ==
    canvas.height - (((ev.clientY - rect.top) * canvas.height) \div (rect.bottom - rect.top))

onCanvas(ev) ==
    /\ ev.clientX >= rect.left /\ ev.clientX <= rect.right
    /\ ev.clientY >= rect.top /\ ev.clientY <= rect.bottom

NoMouse == [mousePosX |-> 0, mousePosY |-> 0, mouseOriX |-> 0, mouseOriY |-> 0,
            mouseIsDown |-> FALSE, last |-> NoEvent]

mousedown(m, ev) ==
    IF ev.button = 2 \/ ~onCanvas(ev) THEN m
    ELSE [m EXCEPT !.mouseIsDown = TRUE,
                   !.mouseOriX = calcMouseX(ev), !.mouseOriY = calcMouseY(ev),
                   !.mousePosX = calcMouseX(ev), !.mousePosY = calcMouseY(ev)]

\* a mouseup handler that leaves the click origin as the press made it
mouseupKeepsOrigin(m, ev) ==
    IF ~onCanvas(ev) THEN m ELSE [m EXCEPT !.mouseIsDown = FALSE]

\* Math.abs(0) * -1 is the negative zero, which equals 0
mouseup(m, ev) ==
    IF ~onCanvas(ev) THEN m
    ELSE [m EXCEPT !.mouseIsDown = FALSE,
                   !.mouseOriX = abs(@) * (0 - 1), !.mouseOriY = abs(@) * (0 - 1)]

mousemove(m, ev) ==
    IF ~onCanvas(ev) THEN m
    ELSE IF m.mouseIsDown
         THEN [m EXCEPT !.mousePosX = calcMouseX(ev), !.mousePosY = calcMouseY(ev),
                        !.mouseOriX = abs(@), !.mouseOriY = abs(@)]
         ELSE m

\* a mouseleave handler that ends the press and leaves the click origin as it is
mouseleaveKeepsOrigin(m) ==
    IF m.mouseIsDown THEN [m EXCEPT !.mouseIsDown = FALSE] ELSE m

mouseleave(m) ==
    IF m.mouseIsDown
    THEN [m EXCEPT !.mouseIsDown = FALSE,
                   !.mouseOriX = abs(@) * (0 - 1), !.mouseOriY = abs(@) * (0 - 1)]
    ELSE m

(***************************************************************************)
(* Texts typed by the user: sequences of one-character strings.  parseInt   *)
(* and parseFloat read an optional sign and the longest run of digits that *)
(* follows it; NaN stands for the number they return when there is none.   *)
(* The texts tried hold no white space, no '.', no 'e' and no 'Infinity',   *)
(* so trim() leaves them as they are and both functions return integers.   *)
(***************************************************************************)
MaxTextLen == 2

\* a number as parseInt returns it: NaN, or the integer n
NaN == [nan |-> TRUE, n |-> 0]

Number(n) == [nan |-> FALSE, n |-> n]

DigitChars == <<"0", "1", "2", "3", "4", "5", "6", "7", "8", "9">>

IsDigit(ch) == \E i \in 1..10 : DigitChars[i] = ch

DigitValue(ch) == (CHOOSE i \in 1..10 : DigitChars[i] = ch) - 1

RECURSIVE LeadingDigits(_)
LeadingDigits(txt) ==
    IF txt = <<>> \/ ~IsDigit(Head(txt)) THEN <<>>
    ELSE <<Head(txt)>> \o LeadingDigits(Tail(txt))

RECURSIVE Decimal(_)
Decimal(digits) ==
    IF digits = <<>> THEN 0
    ELSE 10 * Decimal(SubSeq(digits, 1, Len(digits) - 1))
         + DigitValue(digits[Len(digits)])

parseInt(txt) ==
    LET signed == txt # <<>> /\ Head(txt) \in {"-", "+"}
        digits == LeadingDigits(IF signed THEN Tail(txt) ELSE txt)
    IN IF digits = <<>> THEN NaN
       ELSE IF Head(txt) = "-" THEN Number(0 - Decimal(digits))
       ELSE Number(Decimal(digits))

parseFloat(txt) == parseInt(txt)

isNaN(x) == x.nan

TextsOver(chars) == UNION {[1..n -> chars] : n \in 0..MaxTextLen}

(***************************************************************************)
(* parseShaderConfig: the directives of a code block, one comment line at  *)
(* a time.  A directive is the prefix parseDirective matches with           *)
(* startsWith and the trimmed text after it.                               *)
(***************************************************************************)
Words == {<<"t", "r", "u", "e">>, <<"f", "a", "l", "s", "e">>, <<"y", "e", "s">>}

AspectTexts == TextsOver({"-", "0", "2", "x"}) \cup Words

Directives ==
    [name : {"@aspect:"}, value : AspectTexts]
    \cup [name : {"@autoplay:", "@hideCode:"}, value : Words \cup {<<>>, <<"2">>}]
    \cup [name : {"@template:", "@iChannel2:"}, value : {<<"x">>}]
    \cup [name : {"@speed:"}, value : {<<"2">>, <<"t", "r", "u", "e">>}]

NoDirective == [name |-> "", value |-> <<>>]

\* the ShaderConfig parseShaderConfig starts from; an absent optional field is <<>>
DefaultConfig(defaultAutoplay, defaultHideCode) ==
    [aspect |-> 1, autoplay |-> defaultAutoplay, hideCode |-> defaultHideCode,
     template |-> <<>>, iChannel2 |-> <<>>]

\* resolveTexturePath with no texture folder and no shortcut
resolveTexturePath(pathOrKey) == pathOrKey

parseDirective(directive, config) ==
    LET aspectValue == parseFloat(directive.value)
    IN IF directive.name = "@aspect:"
       THEN IF ~isNaN(aspectValue) /\ aspectValue.n > 0
            THEN [config EXCEPT !.aspect = aspectValue.n]
            ELSE config
       ELSE IF directive.name = "@autoplay:"
       THEN [config EXCEPT !.autoplay = (directive.value = <<"t", "r", "u", "e">>)]
       ELSE IF directive.name = "@hideCode:"
       THEN [config EXCEPT !.hideCode = (directive.value = <<"t", "r", "u", "e">>)]
       ELSE IF directive.name = "@template:"
       THEN [config EXCEPT !.template = directive.value]
       ELSE IF directive.name = "@iChannel2:"
       THEN [config EXCEPT !.iChannel2 = resolveTexturePath(directive.value)]
       ELSE config

NoParsing == [config |-> DefaultConfig(FALSE, FALSE), line |-> NoDirective]

(***************************************************************************)
(* The settings tab: the text field and the reset button of Maximum Active *)
(* Viewers.                                                                *)
(***************************************************************************)
SettingTexts == TextsOver({"-", "0", "1", "5", "x"})

DefaultSettings == [maxActiveViewers |-> 10, input |-> <<"none">>]

\* onChange that stores whatever number the text starts with
onChangeUnchecked(st, value) ==
    LET numValue == parseInt(value)
    IN IF ~isNaN(numValue) THEN [st EXCEPT !.maxActiveViewers = numValue.n] ELSE st

\* onChange of the text field
onChange(st, value) ==
    LET numValue == parseInt(value)
    IN IF ~isNaN(numValue) /\ numValue.n >= 1 /\ numValue.n <= 50
       THEN [st EXCEPT !.maxActiveViewers = numValue.n]
       ELSE st

\* onClick of the reset button
onClick(st) == [st EXCEPT !.maxActiveViewers = 10]

InitSessions ==
    /\ renderer = [s \in Sessions |-> NoRenderer]
    /\ textureManager = [s \in Sessions |-> NoTextures]
    /\ images = [s \in Sessions |-> [c \in Channels |-> 0]]
    /\ gl = [s \in Sessions |-> NewContext]
    /\ raf = [s \in Sessions |-> {}]
    /\ history = [s \in Sessions |-> NoHistory]
    /\ activeViewers = {}
    /\ task = [s \in Sessions |-> NoTask]
    /\ controls = [s \in Sessions |-> NoControls]
    /\ dom = [v \in Viewers |-> "none"]
    /\ records = [s \in Sessions |-> FALSE]
    /\ mouse = NoMouse
    /\ parsing = NoParsing
    /\ settings = DefaultSettings

(***************************************************************************)
(* ShaderCompiler alone: one compileProgram call on a new context, for     *)
(* every behaviour of the driver.                                          *)
(***************************************************************************)
InitCompile ==
    /\ compileIn \in DriverCases(RawLogs)
    /\ compileOut = NoCompile
    /\ plugin = NoPlugin
    /\ InitSessions

Compile ==
    /\ ~compileOut.done
    /\ compileOut' = [done |-> TRUE, result |-> compileProgram(NewContext, compileIn)]
    /\ UNCHANGED <<mouse, parsing, settings, compileIn, renderer, textureManager, images, gl, raf, history,
                   activeViewers, plugin, task, controls, dom, records>>

NextCompile == Compile

SpecCompile == InitCompile /\ [][NextCompile]_vars

(***************************************************************************)
(* The mouse handlers of one renderer alone: every event the canvas can    *)
(* get, in any order.                                                      *)
(***************************************************************************)
InitMouse ==
    /\ compileIn = IdleDriver
    /\ compileOut = NoCompile
    /\ plugin = NoPlugin
    /\ InitSessions

Elsewhere == <<compileIn, compileOut, renderer, textureManager, images, gl, raf, history,
               activeViewers, plugin, task, controls, dom, records, parsing, settings>>

MouseDown ==
    /\ \E ev \in MouseEvents :
          /\ ev.kind = "mousedown"
          /\ mouse' = [mousedown(mouse, ev) EXCEPT !.last = ev]
    /\ UNCHANGED Elsewhere

MouseUp ==
    /\ \E ev \in MouseEvents :
          /\ ev.kind = "mouseup"
          /\ mouse' = [mouseup(mouse, ev) EXCEPT !.last = ev]
    /\ UNCHANGED Elsewhere

MouseMove ==
    /\ \E ev \in MouseEvents :
          /\ ev.kind = "mousemove"
          /\ mouse' = [mousemove(mouse, ev) EXCEPT !.last = ev]
    /\ UNCHANGED Elsewhere

MouseLeave ==
    /\ mouse' = [mouseleave(mouse) EXCEPT !.last = [NoEvent EXCEPT !.kind = "mouseleave"]]
    /\ UNCHANGED Elsewhere

NextMouse == MouseDown \/ MouseUp \/ MouseMove \/ MouseLeave

SpecMouse == InitMouse /\ [][NextMouse]_vars

(***************************************************************************)
(* parseShaderConfig alone: the settings' defaults, then any directive      *)
(* lines.                                                                  *)
(***************************************************************************)
InitConfig ==
    /\ compileIn = IdleDriver
    /\ compileOut = NoCompile
    /\ plugin = NoPlugin
    /\ renderer = [s \in Sessions |-> NoRenderer]
    /\ textureManager = [s \in Sessions |-> NoTextures]
    /\ images = [s \in Sessions |-> [c \in Channels |-> 0]]
    /\ gl = [s \in Sessions |-> NewContext]
    /\ raf = [s \in Sessions |-> {}]
    /\ history = [s \in Sessions |-> NoHistory]
    /\ activeViewers = {}
    /\ task = [s \in Sessions |-> NoTask]
    /\ controls = [s \in Sessions |-> NoControls]
    /\ dom = [v \in Viewers |-> "none"]
    /\ records = [s \in Sessions |-> FALSE]
    /\ mouse = NoMouse
    /\ settings = DefaultSettings
    /\ \E defaultAutoplay \in BOOLEAN, defaultHideCode \in BOOLEAN :
          parsing = [config |-> DefaultConfig(defaultAutoplay, defaultHideCode),
                     line |-> NoDirective]

ParseLine ==
    /\ \E directive \in Directives :
          parsing' = [config |-> parseDirective(directive, parsing.config),
                      line |-> directive]
    /\ UNCHANGED <<compileIn, compileOut, renderer, textureManager, images, gl, raf,
                   history, activeViewers, plugin, task, controls, dom, records,
                   mouse, settings>>

NextConfig == ParseLine

SpecConfig == InitConfig /\ [][NextConfig]_vars

(***************************************************************************)
(* The settings tab alone: edits of the text field and resets, in any      *)
(* order.                                                                  *)
(***************************************************************************)
InitSettings ==
    /\ compileIn = IdleDriver
    /\ compileOut = NoCompile
    /\ plugin = NoPlugin
    /\ InitSessions

EditMaxViewers ==
    /\ \E value \in SettingTexts :
          settings' = [onChange(settings, value) EXCEPT !.input = value]
    /\ UNCHANGED <<compileIn, compileOut, renderer, textureManager, images, gl, raf,
                   history, activeViewers, plugin, task, controls, dom, records,
                   mouse, parsing>>

ResetMaxViewers ==
    /\ settings' = [onClick(settings) EXCEPT !.input = <<"reset">>]
    /\ UNCHANGED <<compileIn, compileOut, renderer, textureManager, images, gl, raf,
                   history, activeViewers, plugin, task, controls, dom, records,
                   mouse, parsing>>

NextSettings == EditMaxViewers \/ ResetMaxViewers

SpecSettings == InitSettings /\ [][NextSettings]_vars

(***************************************************************************)
(* One GLSLRenderer alone: the calls of its public methods and the         *)
(* callbacks of the browser, in any order.                                 *)
(***************************************************************************)
\* the driver behaviours a session's load() is tried with
LoadCases ==
    {in \in DriverCases({<<69>>}) :
        /\ ~in.vsNull /\ ~in.fsNull /\ ~in.progNull /\ ~in.throws /\ in.vsOk
        /\ (in.fsOk \/ in.linkOk)}

Outside == <<compileIn, compileOut, plugin, dom, mouse, parsing, settings>>

InitSession ==
    /\ compileIn = IdleDriver
    /\ compileOut = NoCompile
    /\ plugin = NoPlugin
    /\ InitSessions

Live(s) == renderer[s].constructed

SessionConstruct(s) ==
    /\ ~renderer[s].constructed
    /\ Commit(construct(World, s, s, TRUE))
    /\ UNCHANGED Outside

SessionLoad(s) ==
    /\ Live(s) /\ ~renderer[s].isDestroyed
    /\ renderer[s].program = 0 /\ gl[s] = NewContext
    /\ \E in \in LoadCases : Commit(load(World, s, in))
    /\ UNCHANGED Outside

SessionPlay(s) ==
    /\ Live(s) /\ renderer[s].frameCount < MaxFrames
    /\ Commit(play(World, s))
    /\ UNCHANGED Outside

SessionPause(s) ==
    /\ Live(s)
    /\ Commit(pause(World, s))
    /\ UNCHANGED Outside

\* a scheduled frame callback runs
SessionFrame(s) ==
    /\ renderer[s].frameCount < MaxFrames
    /\ \E id \in raf[s] : Commit(animate([World EXCEPT !.raf[s] = @ \ {id}], s))
    /\ UNCHANGED Outside

SessionCaptureFrame(s) ==
    /\ Live(s) /\ renderer[s].frameCount < MaxFrames
    /\ Commit(captureFrame(World, s))
    /\ UNCHANGED Outside

SessionCaptureAtTime(s) ==
    /\ Live(s)
    /\ Commit(captureAtTime(World, s))
    /\ UNCHANGED Outside

SessionLoadTexture(s) ==
    /\ Live(s) /\ history[s].loads < MaxLoads
    /\ \E c \in LoadChannels : Commit(loadTexture(World, s, c))
    /\ UNCHANGED Outside

SessionImageLoaded(s) ==
    /\ \E c \in Channels, size \in ImageSizes, isNull \in BOOLEAN :
          /\ images[s][c] > 0
          /\ Commit(imageLoaded(World, s, c, size, isNull))
    /\ UNCHANGED Outside

SessionImageFailed(s) ==
    /\ \E c \in Channels :
          /\ images[s][c] > 0
          /\ Commit(imageFailed(World, s, c))
    /\ UNCHANGED Outside

SessionDestroy(s) ==
    /\ Live(s) /\ history[s].destroyCalls < MaxDestroyCalls
    /\ Commit(destroy(World, s))
    /\ UNCHANGED Outside

\* the renderer's creator registers it: this.activeViewers.add(glslRenderer)
SessionRegister(s) ==
    /\ Live(s)
    /\ Commit(register(World, s))
    /\ UNCHANGED Outside

NextSession ==
    \/ SessionConstruct(1)
    \/ SessionLoad(1)
    \/ SessionPlay(1)
    \/ SessionPause(1)
    \/ SessionFrame(1)
    \/ SessionCaptureFrame(1)
    \/ SessionCaptureAtTime(1)
    \/ SessionLoadTexture(1)
    \/ SessionImageLoaded(1)
    \/ SessionImageFailed(1)
    \/ SessionDestroy(1)
    \/ SessionRegister(1)

SpecSession == InitSession /\ [][NextSession]_vars

(***************************************************************************)
(* The frame clock of one GLSLRenderer: play, pause, frames and captures,  *)
(* with history recording the first play() and the stills drawn.           *)
(***************************************************************************)
\* play(); history.played records that a play() got past its guard
ClockPlay(s) ==
    /\ Live(s) /\ renderer[s].frameCount < MaxFrames
    /\ Commit([play(World, s) EXCEPT
                  !.h[s].played = @ \/ renderer[s].animationId = 0])
    /\ UNCHANGED Outside

\* captureAtTime(t, q); history.still records that renderAtTime drew
ClockCaptureAtTime(s) ==
    /\ Live(s)
    /\ Commit([captureAtTime(World, s) EXCEPT
                  !.h[s].still = @ \/ (renderer[s].program # 0 /\ renderer[s].refs)])
    /\ UNCHANGED Outside

NextClock ==
    \/ SessionConstruct(1)
    \/ SessionLoad(1)
    \/ ClockPlay(1)
    \/ SessionPause(1)
    \/ SessionFrame(1)
    \/ SessionCaptureFrame(1)
    \/ ClockCaptureAtTime(1)
    \/ SessionLoadTexture(1)
    \/ SessionDestroy(1)

SpecClock == InitSession /\ [][NextClock]_vars

(***************************************************************************)
(* The plugin: createGLSLViewer (main.ts, and part_012 with its capacity   *)
(* check), the ControlsManager, the document and onunload.                 *)
(***************************************************************************)
Revisions == {"main.ts", "part_012"}

\* the channels a block's config names textures for
ConfigChannels == {{}, {2}}

Levels == {"canvas", "container", "block", "ancestor"}

RECURSIVE loadTextures(_, _, _)
loadTextures(w, s, chans) ==
    IF chans = {} THEN w
    ELSE LET c == CHOOSE x \in chans : TRUE
         IN loadTextures(loadTexture(w, s, c), s, chans \ {c})

\* what createGLSLViewer meets from `new GLSLRenderer` on: whether the canvas gives
\* a WebGL context (the constructor throws 'WebGL not supported' when it does not,
\* and the catch clause shows the error), whether the config names a template,
\* the channels it names textures for, what the driver does in load()
Blocks(revision) ==
    [webgl : BOOLEAN, template : IF revision = "main.ts" THEN BOOLEAN ELSE {FALSE},
     channels : ConfigChannels, driver : LoadCases]

\* createGLSLViewer from glslRenderer.load to `await this.loadTextures`
loadShader(w, s, block) ==
    LET w1 == load(w, s, block.driver)
    IN IF w1.r[s].program = 0
       THEN [w1 EXCEPT !.t[s].pc = "failed", !.t[s].error = "compile"]
       ELSE [loadTextures(w1, s, block.channels) EXCEPT !.t[s].pc = "textures"]

\* createGLSLViewer from `new GLSLRenderer` to its next await
startRenderer(w, s, block, hasParent) ==
    LET w1 == construct(w, s, w.t[s].viewer, hasParent)
    IN IF ~block.webgl THEN [w EXCEPT !.t[s].pc = "failed", !.t[s].error = "webgl"]
       ELSE IF block.template THEN [w1 EXCEPT !.t[s].pc = "template"]
       ELSE loadShader(w1, s, block)

\* createGLSLViewer that gives up when a texture load has resolved false
finishCreateIfLoaded(w, s, revision) ==
    IF w.h[s].loaded = "false"
    THEN [w EXCEPT !.t[s].pc = "failed", !.t[s].error = "texture"]
    ELSE LET w1 == register([w EXCEPT !.c[s] = [NoControls EXCEPT
                                                    !.attached = TRUE,
                                                    !.isPlaying = w.t[s].autoplay,
                                                    !.glslRenderer = s]], s)
         IN IF w.t[s].autoplay THEN [play(w1, s) EXCEPT !.t[s].pc = "done"]
            ELSE IF revision = "main.ts" THEN [w1 EXCEPT !.t[s].pc = "thumbGen"]
            ELSE [w1 EXCEPT !.t[s].pc = "done"]

\* createGLSLViewer after `await this.loadTextures`
finishCreate(w, s, revision) ==
    LET w1 == register([w EXCEPT !.c[s] = [NoControls EXCEPT
                                               !.attached = TRUE,
                                               !.isPlaying = w.t[s].autoplay,
                                               !.glslRenderer = s]], s)
    IN IF w.t[s].autoplay THEN [play(w1, s) EXCEPT !.t[s].pc = "done"]
       ELSE IF revision = "main.ts" THEN [w1 EXCEPT !.t[s].pc = "thumbGen"]
       ELSE [w1 EXCEPT !.t[s].pc = "done"]

RECURSIVE destroyAll(_, _)
destroyAll(w, ss) ==
    IF ss = {} THEN w
    ELSE LET s == CHOOSE x \in ss : TRUE
         IN destroyAll(destroy(w, s), ss \ {s})

onunload(w) == [destroyAll(w, w.av) EXCEPT !.av = {}]

\* createGLSLViewer, called for the canvas of viewer v, to its first await
createGLSLViewer(w0, s, v, autoplay, block, revision) ==
    LET w == [w0 EXCEPT !.t[s] = [NoTask EXCEPT !.viewer = v, !.autoplay = autoplay]]
    IN IF revision = "main.ts"
       THEN IF ~autoplay
            THEN [w EXCEPT !.t[s].pc = "thumbCheck"]
            ELSE startRenderer(w, s, block, TRUE)
       ELSE IF Cardinality(w.av) >= plugin.maxActiveViewers
            THEN [w EXCEPT !.t[s].pc = "refused", !.t[s].error = "capacity"]
            ELSE startRenderer(w, s, block, TRUE)

\* destroyViewerContainer for the container of viewer v, which holds a canvas: the
\* loop over activeViewers, in the order of registration, calls getCanvas() on
\* each renderer until one has the canvas; getCanvas() throws on a renderer
\* whose canvas reference destroy() has cleared
cleanupExistingViewer(w, v) ==
    LET stops == {x \in w.av : w.r[x].canvas = 0 \/ w.r[x].canvas = v}
        first == CHOOSE x \in stops :
                     \A y \in stops : w.h[x].registeredAt <= w.h[y].registeredAt
    IN IF stops = {} THEN [threw |-> FALSE, w |-> w]
       ELSE IF w.r[first].canvas = 0 THEN [threw |-> TRUE, w |-> w]
       ELSE [threw |-> FALSE, w |-> destroy(w, first)]

InitPlugin ==
    /\ compileIn = IdleDriver
    /\ compileOut = NoCompile
    /\ plugin \in [maxActiveViewers : 1..MaxCap, revision : Revisions, unloaded : {FALSE},
                   rerenders : {0}, hostFault : {FALSE}]
    /\ InitSessions

Least(S) == CHOOSE x \in S : \A y \in S : x <= y

FrameRoom(s) == renderer[s].program = 0 \/ renderer[s].frameCount < MaxPluginFrames

\* the host renders a code block: processGLSLBlockReadingMode builds the viewer
\* container and calls createGLSLViewer, which runs to its first await
ProcessBlock(s, v) ==
    /\ ~plugin.unloaded
    /\ task[s].pc = "idle" /\ s = Least({x \in Sessions : task[x].pc = "idle"})
    /\ dom[v] = "none" /\ v = Least({x \in Viewers : dom[x] = "none"})
    /\ dom' = [dom EXCEPT ![v] = "attached"]
    /\ \E autoplay \in BOOLEAN, block \in Blocks(plugin.revision) :
          Commit(createGLSLViewer(World, s, v, autoplay, block, plugin.revision))
    /\ UNCHANGED <<mouse, parsing, settings, compileIn, compileOut, plugin>>

\* `await this.thumbnailManager.thumbnailExists` of a viewer without autoplay ends
ThumbCheckDone(s) ==
    /\ task[s].pc = "thumbCheck"
    /\ \E exists \in BOOLEAN, block \in Blocks(plugin.revision) :
          IF exists
          THEN Commit([World EXCEPT !.t[s].pc = "lazy"])
          ELSE Commit(startRenderer(World, s, block, dom[task[s].viewer] # "canvas"))
    /\ UNCHANGED Outside

\* `await this.templateManager.loadAndApplyTemplate` ends
TemplateDone(s) ==
    /\ task[s].pc = "template"
    /\ \E found \in BOOLEAN, block \in Blocks(plugin.revision) :
          IF found
          THEN Commit(loadShader(World, s, block))
          ELSE Commit([World EXCEPT !.t[s].pc = "failed", !.t[s].error = "template"])
    /\ UNCHANGED Outside

ImageLoaded(s) ==
    /\ \E c \in Channels, size \in ImageSizes, isNull \in BOOLEAN :
          /\ images[s][c] > 0
          /\ Commit(imageLoaded(World, s, c, size, isNull))
    /\ UNCHANGED Outside

ImageFailed(s) ==
    /\ \E c \in Channels :
          /\ images[s][c] > 0
          /\ Commit(imageFailed(World, s, c))
    /\ UNCHANGED Outside

\* `await this.loadTextures` ends: every decode has called back
TexturesDone(s) ==
    /\ task[s].pc = "textures"
    /\ \A c \in Channels : images[s][c] = 0
    /\ Commit(finishCreate(World, s, plugin.revision))
    /\ UNCHANGED Outside

\* generateThumbnailAndCleanup up to the capture
ThumbCapture(s) ==
    /\ task[s].pc = "thumbGen"
    /\ \E exists \in BOOLEAN :
          LET w == IF exists THEN World ELSE captureAtTime(World, s)
          IN Commit([w EXCEPT !.t[s].pc = "thumbSave"])
    /\ UNCHANGED Outside

\* generateThumbnailAndCleanup from glslRenderer.destroy()
ThumbCleanup(s) ==
    /\ task[s].pc = "thumbSave"
    /\ Commit([destroy(World, s) EXCEPT !.t[s].pc = "lazy"])
    /\ UNCHANGED Outside

\* a scheduled frame callback runs
Frame(s) ==
    /\ FrameRoom(s)
    /\ \E id \in raf[s] : Commit(animate([World EXCEPT !.raf[s] = @ \ {id}], s))
    /\ UNCHANGED Outside

\* the creation calls that have returned
Returned == {"done", "failed", "lazy", "refused"}

\* the host renders the code block of creation call s again while its viewer
\* container is in the document: processGLSLBlockReadingMode cleans up the old
\* viewer, builds a new container in its place and calls createGLSLViewer.  The
\* new call takes the place of call s, which has returned and whose renderer, if
\* it made one, is destroyed by then.
Reprocess(s) ==
    /\ plugin.revision = "main.ts" /\ ~plugin.unloaded
    /\ plugin.rerenders < MaxRerenders
    /\ task[s].pc \in Returned
    /\ dom[task[s].viewer] = "attached"
    /\ \A c \in Channels : images[s][c] = 0
    /\ renderer[s].constructed => s \in activeViewers \/ renderer[s].isDestroyed
    /\ LET v == task[s].viewer
           clean == cleanupExistingViewer(World, v)
           w == [clean.w EXCEPT !.r[s] = NoRenderer, !.tm[s] = NoTextures,
                                !.gl[s] = NewContext, !.h[s] = NoHistory,
                                !.c[s] = NoControls]
       IN IF clean.threw
          THEN /\ plugin' = [plugin EXCEPT !.rerenders = @ + 1, !.hostFault = TRUE]
               /\ UNCHANGED <<mouse, parsing, settings, renderer, textureManager, images, gl, raf, history,
                              activeViewers, task, controls, records>>
          ELSE /\ plugin' = [plugin EXCEPT !.rerenders = @ + 1]
               /\ \E autoplay \in BOOLEAN, block \in Blocks(plugin.revision) :
                     Commit(createGLSLViewer(w, s, v, autoplay, block,
                                             plugin.revision))
    /\ UNCHANGED <<mouse, parsing, settings, compileIn, compileOut, dom>>

\* the host removes the canvas of viewer v, or a node above it, from the document
RemoveNode(v) ==
    /\ dom[v] = "attached"
    /\ Cardinality({x \in Viewers : dom[x] \in Levels}) < MaxRemovals
    /\ \E level \in Levels :
          /\ dom' = [dom EXCEPT ![v] = level]
          /\ records' = [s \in Sessions |->
                            \/ records[s]
                            \/ /\ level = "canvas"
                               /\ renderer[s].observing
                               /\ renderer[s].canvas = v]
    /\ UNCHANGED <<mouse, parsing, settings, compileIn, compileOut, renderer, textureManager, images, gl, raf,
                   history, activeViewers, plugin, task, controls>>

\* the MutationObserver of session s delivers its records
ObserverCallback(s) ==
    /\ records[s]
    /\ Commit(destroy([World EXCEPT !.rec[s] = FALSE], s))
    /\ UNCHANGED Outside

Unload ==
    /\ ~plugin.unloaded
    /\ plugin' = [plugin EXCEPT !.unloaded = TRUE]
    /\ Commit(onunload(World))
    /\ UNCHANGED <<mouse, parsing, settings, compileIn, compileOut, dom>>

Next ==
    \/ \E s \in Sessions, v \in Viewers : ProcessBlock(s, v)
    \/ \E s \in Sessions : ThumbCheckDone(s)
    \/ \E s \in Sessions : TemplateDone(s)
    \/ \E s \in Sessions : ImageLoaded(s)
    \/ \E s \in Sessions : ImageFailed(s)
    \/ \E s \in Sessions : TexturesDone(s)
    \/ \E s \in Sessions : ThumbCapture(s)
    \/ \E s \in Sessions : ThumbCleanup(s)
    \/ \E s \in Sessions : Frame(s)
    \/ \E s \in Sessions : Reprocess(s)
    \/ \E v \in Viewers : RemoveNode(v)
    \/ \E s \in Sessions : ObserverCallback(s)
    \/ Unload

Spec == InitPlugin /\ [][Next]_vars

(***************************************************************************)
(* One viewer whose config names textures for several channels: the         *)
(* creation call, the image callbacks of its loads, and the frames.         *)
(***************************************************************************)
\* the channels the config of a textured block names
TexturedChannels == {{0, 2}, {1}}

TexturedBlocks ==
    [webgl : {TRUE}, template : {FALSE}, channels : TexturedChannels,
     driver : {IdleDriver}]

\* the host renders a textured block with autoplay: createGLSLViewer runs to
\* `await this.loadTextures`; without autoplay it runs to thumbnailExists
ProcessTextured(s, v) ==
    /\ plugin.revision = "main.ts"
    /\ task[s].pc = "idle" /\ s = Least({x \in Sessions : task[x].pc = "idle"})
    /\ dom[v] = "none" /\ v = Least({x \in Viewers : dom[x] = "none"})
    /\ dom' = [dom EXCEPT ![v] = "attached"]
    /\ \E autoplay \in BOOLEAN, block \in TexturedBlocks :
          Commit(createGLSLViewer(World, s, v, autoplay, block, plugin.revision))
    /\ UNCHANGED <<mouse, parsing, settings, compileIn, compileOut, plugin>>

\* thumbnailExists of a textured block answers that there is none
TexturedThumbCheck(s) ==
    /\ task[s].pc = "thumbCheck"
    /\ \E block \in TexturedBlocks : Commit(startRenderer(World, s, block, TRUE))
    /\ UNCHANGED Outside

NextTextures ==
    \/ ProcessTextured(1, 1)
    \/ TexturedThumbCheck(1)
    \/ ImageLoaded(1)
    \/ ImageFailed(1)
    \/ TexturesDone(1)
    \/ ThumbCapture(1)
    \/ ThumbCleanup(1)
    \/ Frame(1)

SpecTextures == InitPlugin /\ [][NextTextures]_vars

(***************************************************************************)
(* Code blocks processed again while their viewer is still being created:  *)
(* createGLSLViewer and its awaits, the frames, and                          *)
(* processGLSLBlockReadingMode called for an element that has a viewer.     *)
(***************************************************************************)
\* the host renders again the code block whose viewer creation call s made or is
\* making: cleanupExistingViewer looks for the renderer of the old canvas in
\* activeViewers, destroyViewerContainer removes the old container, and
\* createGLSLViewer runs as call n on the new container v2.  A call s still at
\* thumbnailExists has no renderer yet and is left out.
ReprocessElement(s, n, v2) ==
    /\ plugin.revision = "main.ts" /\ ~plugin.unloaded
    /\ plugin.rerenders < MaxRerenders
    /\ task[s].pc \notin {"idle", "thumbCheck"}
    /\ dom[task[s].viewer] = "attached"
    /\ task[n].pc = "idle" /\ n = Least({x \in Sessions : task[x].pc = "idle"})
    /\ dom[v2] = "none" /\ v2 = Least({x \in Viewers : dom[x] = "none"})
    /\ LET v == task[s].viewer
           clean == cleanupExistingViewer(World, v)
       IN IF clean.threw
          THEN /\ plugin' = [plugin EXCEPT !.rerenders = @ + 1, !.hostFault = TRUE]
               /\ UNCHANGED <<dom, renderer, textureManager, images, gl, raf, history,
                              activeViewers, task, controls, records>>
          ELSE /\ plugin' = [plugin EXCEPT !.rerenders = @ + 1]
               /\ dom' = [dom EXCEPT ![v] = "replaced", ![v2] = "attached"]
               /\ \E autoplay \in BOOLEAN, block \in Blocks(plugin.revision) :
                     Commit(createGLSLViewer(clean.w, n, v2, autoplay, block,
                                             plugin.revision))
    /\ UNCHANGED <<mouse, parsing, settings, compileIn, compileOut>>

NextReprocess ==
    \/ \E s \in Sessions, v \in Viewers : ProcessBlock(s, v)
    \/ \E s \in Sessions : ThumbCheckDone(s)
    \/ \E s \in Sessions : TemplateDone(s)
    \/ \E s \in Sessions : ImageLoaded(s)
    \/ \E s \in Sessions : ImageFailed(s)
    \/ \E s \in Sessions : TexturesDone(s)
    \/ \E s \in Sessions : ThumbCapture(s)
    \/ \E s \in Sessions : ThumbCleanup(s)
    \/ \E s \in Sessions : Frame(s)
    \/ \E s, n \in Sessions, v \in Viewers : ReprocessElement(s, n, v)

SpecReprocess == InitPlugin /\ [][NextReprocess]_vars

(***************************************************************************)
(* The ControlsManager of one viewer alone (the revision with the stop      *)
(* button): clicks on its buttons, calls of stop(), the end of a renderer   *)
(* recreation that play() awaits, and the frames of its renderers.         *)
(***************************************************************************)
Blank ==
    [r |-> [s \in Sessions |-> NoRenderer],
     tm |-> [s \in Sessions |-> NoTextures],
     img |-> [s \in Sessions |-> [c \in Channels |-> 0]],
     gl |-> [s \in Sessions |-> NewContext],
     raf |-> [s \in Sessions |-> {}],
     h |-> [s \in Sessions |-> NoHistory],
     av |-> {},
     rec |-> [s \in Sessions |-> FALSE],
     t |-> [s \in Sessions |-> NoTask],
     c |-> [s \in Sessions |-> NoControls]]

\* the channels the config of the viewer names textures for
ControlsChannels == {2}

\* the state createGLSLViewer leaves behind for viewer 1: with autoplay the
\* renderer plays, without it generateThumbnailAndCleanup has destroyed it
Created(autoplay) ==
    LET w0 == load(construct(Blank, 1, 1, TRUE), 1, IdleDriver)
        w1 == imageLoaded(loadTextures(w0, 1, ControlsChannels), 1, 2, <<64, 32>>, FALSE)
        w2 == finishCreate([w1 EXCEPT !.t[1] = [NoTask EXCEPT !.viewer = 1,
                                                             !.autoplay = autoplay]],
                           1, "main.ts")
    IN IF autoplay THEN w2 ELSE [destroy(w2, 1) EXCEPT !.t[1].pc = "lazy"]

InitControls ==
    /\ compileIn = IdleDriver
    /\ compileOut = NoCompile
    /\ plugin = NoPlugin
    /\ mouse = NoMouse
    /\ parsing = NoParsing
    /\ settings = DefaultSettings
    /\ dom = [v \in Viewers |-> IF v = 1 THEN "attached" ELSE "none"]
    /\ \E autoplay \in BOOLEAN :
          LET w == Created(autoplay)
          IN /\ renderer = w.r
             /\ textureManager = w.tm
             /\ images = w.img
             /\ gl = w.gl
             /\ raf = w.raf
             /\ history = w.h
             /\ activeViewers = w.av
             /\ records = w.rec
             /\ task = w.t
             /\ controls = w.c

ControlsFrameRoom(s) ==
    renderer[s].program = 0 \/ renderer[s].frameCount <= MaxPluginFrames

\* ControlsManager.pause()
controlsPause(w, k) ==
    LET r == w.c[k].glslRenderer
        w1 == IF r # 0 THEN pause(w, r) ELSE w
    IN [w1 EXCEPT !.c[k].isPlaying = FALSE]

\* ControlsManager.play() up to `await this.onCreateRenderer(...)`, which runs
\* recreateRenderer up to its `await loadAndApplyTemplate`; s is the renderer
\* recreateRenderer constructs when the controller holds none
controlsPlay(w, k, s) ==
    LET r == w.c[k].glslRenderer
    IN IF r = 0
       THEN [construct(w, s, k, TRUE) EXCEPT !.c[k].awaiting = @ \cup {s}]
       ELSE [play(w, r) EXCEPT !.c[k].isPlaying = TRUE]

\* recreateRenderer from the end of the template read to `await
\* this.loadTextures`: the template is found or not, the shader loads as the
\* driver in makes it
controlsResume(w, k, s, found, in) ==
    LET w0 == [w EXCEPT !.c[k].awaiting = @ \ {s}]
        w1 == load(w0, s, in)
    IN IF ~found THEN w0
       ELSE IF w1.r[s].program = 0 THEN w1
       ELSE [loadTextures(w1, s, ControlsChannels) EXCEPT !.c[k].binding = @ \cup {s}]

\* the end of recreateRenderer after `await this.loadTextures`, and of the
\* play() that awaits it
controlsBound(w, k, s) ==
    [play(register(w, s), s) EXCEPT !.c[k].binding = @ \ {s},
                                    !.c[k].glslRenderer = s,
                                    !.c[k].isPlaying = TRUE]

\* stop() that destroys the renderer and keeps the reference to it
stopKeepsRenderer(w, k) ==
    LET r == w.c[k].glslRenderer
        w1 == IF w.c[k].isPlaying /\ r # 0
              THEN [pause(w, r) EXCEPT !.c[k].isPlaying = FALSE]
              ELSE w
    IN IF r # 0 THEN destroy(w1, r) ELSE w1

\* ControlsManager.stop()
stop(w, k) ==
    LET r == w.c[k].glslRenderer
        w1 == IF w.c[k].isPlaying /\ r # 0
              THEN [pause(w, r) EXCEPT !.c[k].isPlaying = FALSE]
              ELSE w
    IN IF r # 0 THEN [destroy(w1, r) EXCEPT !.c[k].glslRenderer = 0] ELSE w1

\* a click on the pause button
ClickPause ==
    /\ controls[1].isPlaying /\ controls[1].glslRenderer # 0
    /\ Commit(controlsPause(World, 1))
    /\ UNCHANGED Outside

\* a click on the play overlay
ClickPlay ==
    /\ ~controls[1].isPlaying
    /\ LET free == {s \in Sessions : ~renderer[s].constructed}
       IN IF controls[1].glslRenderer = 0
          THEN /\ free # {}
               /\ Commit([controlsPlay(World, 1, Least(free))
                              EXCEPT !.c[1].stopped = FALSE])
          ELSE /\ ControlsFrameRoom(controls[1].glslRenderer)
               /\ Commit([controlsPlay(World, 1, 0) EXCEPT !.c[1].stopped = FALSE])
    /\ UNCHANGED Outside

\* the template read that a recreation awaits ends
RecreateDone(s) ==
    /\ s \in controls[1].awaiting
    /\ \E found \in BOOLEAN, in \in LoadCases :
          Commit(controlsResume(World, 1, s, found, in))
    /\ UNCHANGED Outside

\* every texture load a recreation awaits has settled
RecreateBound(s) ==
    /\ s \in controls[1].binding
    /\ \A c \in Channels : images[s][c] = 0
    /\ Commit(controlsBound(World, 1, s))
    /\ UNCHANGED Outside

\* stop() is called: the stop button, or a caller of the public method
Stop ==
    /\ Commit([stop(World, 1) EXCEPT
                  !.c[1].stopped = TRUE,
                  !.c[1].stoppedSessions = @ \cup ({controls[1].glslRenderer} \ {0})])
    /\ UNCHANGED Outside

\* a scheduled frame callback of a renderer of the viewer runs
ControlsFrame(s) ==
    /\ ControlsFrameRoom(s)
    /\ \E id \in raf[s] : Commit(animate([World EXCEPT !.raf[s] = @ \ {id}], s))
    /\ UNCHANGED Outside

NextControls ==
    \/ ClickPause
    \/ ClickPlay
    \/ Stop
    \/ \E s \in Sessions : RecreateDone(s)
    \/ \E s \in Sessions : ImageLoaded(s)
    \/ \E s \in Sessions : ImageFailed(s)
    \/ \E s \in Sessions : RecreateBound(s)
    \/ \E s \in Sessions : ControlsFrame(s)

SpecControls == InitControls /\ [][NextControls]_vars

(***************************************************************************)
(* The same ControlsManager from the state stop() leaves behind: it holds   *)
(* no renderer, and every click on the play overlay that finds isPlaying    *)
(* false starts a recreation.                                              *)
(***************************************************************************)
\* an autoplay viewer after stop(): the renderer stop() destroyed is referred to
\* by nothing any more and its place is free for the next `new GLSLRenderer`
Stopped(w) ==
    [stop(w, 1) EXCEPT !.r[1] = NoRenderer, !.tm[1] = NoTextures,
                       !.gl[1] = NewContext, !.h[1] = NoHistory,
                       !.c[1].stopped = TRUE]

InitRecreate ==
    /\ compileIn = IdleDriver
    /\ compileOut = NoCompile
    /\ plugin = NoPlugin
    /\ mouse = NoMouse
    /\ parsing = NoParsing
    /\ settings = DefaultSettings
    /\ dom = [v \in Viewers |-> IF v = 1 THEN "attached" ELSE "none"]
    /\ \E w0 \in {Created(TRUE)} : \E w \in {Stopped(w0)} :
          /\ renderer = w.r
          /\ textureManager = w.tm
          /\ images = w.img
          /\ gl = w.gl
          /\ raf = w.raf
          /\ history = w.h
          /\ activeViewers = w.av
          /\ records = w.rec
          /\ task = w.t
          /\ controls = w.c

SpecRecreate == InitRecreate /\ [][NextControls]_vars

(***************************************************************************)
(* Properties.                                                             *)
(***************************************************************************)
\* n additions of frameDelta to 0.0, each rounded as JavaScript rounds it
RECURSIVE Accumulated(_)
Accumulated(n) == IF n = 0 THEN FpZero ELSE FpAdd(Accumulated(n - 1), frameDelta)

\* C1: the first destroy() of a session stops its loop, releases its program and
\* every texture it holds exactly once and takes it out of the registry; a
\* destroy() of a destroyed session changes nothing; no object is ever released
\* twice.
DestroyIdempotent ==
    [][\A s \in Sessions :
          /\ \A h \in 1..Len(gl'[s].programs) : gl'[s].programs[h] <= 1
          /\ \A h \in 1..Len(gl'[s].textures) : gl'[s].textures[h] <= 1
          /\ history'[s].destroyCalls # history[s].destroyCalls =>
                IF renderer[s].isDestroyed
                THEN <<renderer, textureManager, images, gl, raf, activeViewers,
                       records, task, controls>>'
                        = <<renderer, textureManager, images, gl, raf, activeViewers,
                            records, task, controls>>
                ELSE /\ renderer'[s].isDestroyed /\ ~renderer'[s].refs
                     /\ renderer'[s].program = 0 /\ renderer'[s].animationId = 0
                     /\ raf'[s] = raf[s] \ {renderer[s].animationId}
                     /\ renderer'[s].eventListeners = 0 /\ ~renderer'[s].observing
                     /\ s \notin activeViewers'
                     /\ renderer[s].program # 0 =>
                            gl'[s].programs[renderer[s].program] = 1
                     /\ \A c \in Channels :
                            textureManager[s].textures[c] # 0 =>
                                gl'[s].textures[textureManager[s].textures[c]] = 1
                     /\ textureManager'[s] = NoTextures]_vars

\* a session holding a program and a texture has been destroyed twice
DestroyedTwice ==
    /\ history[1].destroyCalls = 2 /\ renderer[1].isDestroyed
    /\ \E h \in 1..Len(gl[1].programs) : gl[1].programs[h] = 1
    /\ \E h \in 1..Len(gl[1].textures) : gl[1].textures[h] = 1

\* C5: no WebGL call is made for a session after its destroy(), whatever callback
\* is still pending then.
NoGpuAfterDestroy == \A s \in Sessions : ~history[s].lateGl

\* C8: N render() invocations after a fresh play() leave the frame counter at N
\* and the simulated time at the sum of N additions of frameDelta to 0.0, each
\* rounded to a double.
FrameStepped ==
    \A s \in Sessions :
        history[s].renders >= 0 /\ renderer[s].program # 0 =>
            /\ renderer[s].frameCount = history[s].renders
            /\ renderer[s].currentTime = Accumulated(history[s].renders)

\* six frames have been rendered since a fresh play()
SixFrames == history[1].renders = 6 /\ renderer[1].program # 0

\* C8 as the specification states it: the simulated time is exactly N * frameDelta
FrameSteppedExact ==
    \A s \in Sessions :
        history[s].renders >= 0 /\ renderer[s].program # 0 =>
            /\ renderer[s].frameCount = history[s].renders
            /\ renderer[s].currentTime = FpTimes(history[s].renders, frameDelta)

\* a play() that starts the loop of session s
PlayStarts(s) ==
    /\ renderer[s].animationId = 0 /\ renderer'[s].animationId # 0
    /\ renderer[s].program # 0

\* C9: a play() that starts the loop renders one frame at once: from a frame
\* counter of zero the time is reset and stepped once, after a pause the time and
\* the frame counter are stepped once from what they were at the pause.
PlayStepsOnce ==
    [][\A s \in Sessions :
          PlayStarts(s) =>
              /\ renderer'[s].frameCount = renderer[s].frameCount + 1
              /\ renderer'[s].currentTime =
                    FpAdd(IF renderer[s].frameCount = 0 THEN FpZero
                          ELSE renderer[s].currentTime, frameDelta)]_vars

\* a loop resumed after a pause: frames from before the pause, the loop running
ResumedAfterPause ==
    /\ history[1].resumed /\ history[1].renders = 7
    /\ renderer[1].program # 0 /\ renderer[1].animationId # 0

\* C9 as the specification states it: play() from a frame counter of zero leaves
\* the time at 0, play() after a pause leaves time and frame counter as they were
ResumeKeepsClock ==
    [][\A s \in Sessions :
          PlayStarts(s) =>
              IF renderer[s].frameCount = 0
              THEN renderer'[s].currentTime = FpZero
              ELSE /\ renderer'[s].currentTime = renderer[s].currentTime
                   /\ renderer'[s].frameCount = renderer[s].frameCount]_vars

\* the vertex stage of the finished compileProgram call failed
VertexFailed == compileIn.vsNull \/ ~compileIn.vsOk

\* the fragment stage of the finished compileProgram call failed
FragmentFailed == ~VertexFailed /\ (compileIn.fsNull \/ ~compileIn.fsOk)

\* C10: when the vertex or the fragment stage fails to compile, compileProgram
\* reports failure with a diagnostic that starts with the failing stage's name,
\* returns no program, and no program object has been created or linked.
CompileFailureReported ==
    compileOut.done /\ ~compileIn.throws /\ (VertexFailed \/ FragmentFailed) =>
        /\ ~compileOut.result.success
        /\ compileOut.result.error.prefix =
              (IF VertexFailed THEN "Vertex shader error:\n"
               ELSE "Fragment shader error:\n")
        /\ compileOut.result.program = 0
        /\ compileOut.result.gl.programs = <<>>
        /\ compileOut.result.gl.links = 0

\* the driver has rejected the fragment stage with a log that survives cleaning
FragmentRejected ==
    /\ compileOut.done /\ ~compileIn.throws /\ FragmentFailed
    /\ ~compileIn.fsNull
    /\ compileOut.result.error.log # <<>>

\* the sessions that hold their resources: constructed and not destroyed
LiveSessions == {s \in Sessions : renderer[s].constructed /\ ~renderer[s].isDestroyed}

\* C2: a renderer is created only while fewer than maxActiveViewers registered
\* sessions are live: the creation that would be one too many is refused.
AdmissionRefusedAtCapacity ==
    \A s \in Sessions :
        renderer[s].constructed =>
            history[s].liveAtConstruct < plugin.maxActiveViewers

\* C3: the registry never holds more than maxActiveViewers sessions.
RegistryWithinCap == Cardinality(activeViewers) <= plugin.maxActiveViewers

\* C4: every member of the registry is a constructed renderer that has not been
\* destroyed, and every such renderer whose creation call has returned is a member.
RegistryExact ==
    /\ activeViewers \subseteq LiveSessions
    /\ \A s \in LiveSessions :
          task[s].pc \in {"done", "failed", "lazy"} => s \in activeViewers

\* C6: whenever the canvas of a live, registered session has left the document,
\* whichever node was removed, the session's destruction is under way: its
\* observer holds a record of the removal, or the creation call is about to
\* destroy it after the thumbnail.
RemovalLeadsToDestroy ==
    \A s \in LiveSessions \cap activeViewers :
        dom[task[s].viewer] \in Levels =>
            records[s] \/ task[s].pc \in {"thumbGen", "thumbSave"}

\* C7: once onunload has run, no session is live, none is registered and no frame
\* callback is scheduled.
UnloadLeavesNothing ==
    plugin.unloaded =>
        /\ LiveSessions = {}
        /\ activeViewers = {}
        /\ \A s \in Sessions : raf[s] = {}

\* both stages of the finished compileProgram call compiled, a program object was
\* made, and the driver refused to link it
LinkFailed ==
    /\ ~compileIn.throws /\ ~VertexFailed /\ ~FragmentFailed
    /\ ~compileIn.progNull /\ ~compileIn.linkOk

\* C11: on a link failure compileProgram reports failure, its diagnostic is the
\* link log (cleaned, after the prefix 'Program link error:'), it returns no
\* program, and the one program object it created has been deleted once.
LinkFailureReported ==
    compileOut.done /\ LinkFailed =>
        /\ ~compileOut.result.success
        /\ compileOut.result.program = 0
        /\ compileOut.result.error.prefix = "Program link error:\n"
        /\ compileIn.log # <<>> =>
              /\ compileOut.result.error.lit = ""
              /\ compileOut.result.error.log = cleanErrorMessage(compileIn.log)
        /\ compileIn.log = <<>> => compileOut.result.error.lit = "Unknown link error"
        /\ compileOut.result.gl.programs = <<1>>
        /\ compileOut.result.gl.links = 1

\* the driver has refused to link, leaving a log that survives cleaning
LinkRejected ==
    compileOut.done /\ LinkFailed /\ compileOut.result.error.log # <<>>

\* the ASCII control characters other than \n and \r
ControlChars == ((0..31) \cup {127}) \ {10, 13}

\* C12: no diagnostic of compileProgram holds an ASCII control character other
\* than \n and \r, whichever path produced it, and the part of it taken from a
\* driver log starts and ends with no white space.
DiagnosticClean ==
    compileOut.done /\ ~compileOut.result.success =>
        LET log == compileOut.result.error.log
        IN /\ \A i \in 1..Len(log) : log[i] \notin ControlChars
           /\ ~compileIn.throws /\ log # <<>> =>
                 ~IsSpace(log[1]) /\ ~IsSpace(log[Len(log)])

\* the renderer of creation call s is out of the registry and holds no WebGL
\* context, program or texture, no input listener and no connected observer
HoldsNothing(s) ==
    /\ s \notin activeViewers
    /\ ~renderer[s].refs /\ renderer[s].program = 0
    /\ textureManager[s] = NoTextures
    /\ renderer[s].eventListeners = 0
    /\ ~renderer[s].observing

\* C13: after a creation has failed because the shader did not compile or link,
\* or because the constructor threw, the renderer of that attempt is not
\* registered and holds no GPU handle, listener or connected observer.
FailedCreationReleases ==
    \A s \in Sessions :
        task[s].pc = "failed" /\ task[s].error \in {"compile", "webgl"} =>
            HoldsNothing(s)

\* C14: after a creation has failed because its template did not resolve, the
\* renderer of that attempt is not registered and holds no GPU context, listener
\* or connected observer.
FailedTemplateReleases ==
    \A s \in Sessions :
        task[s].pc = "failed" /\ task[s].error = "template" => HoldsNothing(s)

\* C15: processing a code block never raises an exception to the host.
NoHostFault == ~plugin.hostFault

\* a step in which a load into channel c of session s fails: the image does not
\* load (unresolvable path, decode error) or createTexture returns no object
FailedLoad(s, c) ==
    /\ images[s][c] > 0
    /\ \/ Commit(imageFailed(World, s, c))
       \/ \E size \in ImageSizes : Commit(imageLoaded(World, s, c, size, TRUE))

\* C16: a texture load that fails resolves to false and leaves the texture
\* manager as it was before the call: no texture handle and no resolution are
\* recorded for the channel, and no texture object is left in the context
FailedLoadKeepsSlot ==
    [][\A s \in Sessions, c \in Channels :
          FailedLoad(s, c) =>
              /\ history'[s].loaded = "false"
              /\ textureManager'[s] = textureManager[s]
              /\ gl'[s].textures = gl[s].textures]_vars

\* a load into a live renderer has failed and its channel holds nothing
LoadFailed ==
    /\ history[1].loaded = "false" /\ history[1].loads = 1
    /\ history[1].destroyCalls = 0
    /\ \A c \in Channels : images[1][c] = 0
    /\ textureManager[1] = NoTextures

\* C17: the resolution query of channel c returns (width, height, 1) of the
\* last load that succeeded into c since the textures were last released and
\* (0, 0, 0) for a channel with no such load; a load settling into one channel
\* changes neither the texture nor the resolution of another channel
ResolutionOfLastLoad ==
    /\ [](\A s \in Sessions, c \in Channels :
             getTextureResolution(textureManager[s], c) =
                 IF history[s].lastGood[c] = <<>> THEN <<0, 0, 0>>
                 ELSE <<history[s].lastGood[c][1], history[s].lastGood[c][2], 1>>)
    /\ [][\A s \in Sessions, c \in Channels :
             images'[s][c] < images[s][c] =>
                 \A d \in Channels \ {c} :
                     /\ textureManager'[s].textures[d] = textureManager[s].textures[d]
                     /\ getTextureResolution(textureManager'[s], d) =
                            getTextureResolution(textureManager[s], d)]_vars

\* channel 1 was loaded twice with images of different sizes, the second load
\* being the one the query answers, while channel 0 was never loaded
LoadedTwice ==
    /\ history[1].loads = 2 /\ history[1].destroyCalls = 0
    /\ \A c \in Channels : images[1][c] = 0
    /\ Len(gl[1].textures) = 2
    /\ textureManager[1].textures[1] = 2
    /\ getTextureResolution(textureManager[1], 0) = <<0, 0, 0>>

\* the mouse state the shader reads: position, origin, isDown
MouseState(m) == <<m.mousePosX, m.mousePosY, m.mouseOriX, m.mouseOriY, m.mouseIsDown>>

\* ev is a press the mousedown handler takes: on the canvas, not the right button
Press(ev) == ev.kind = "mousedown" /\ ev.button # 2 /\ onCanvas(ev)

\* ev is a release the mouseup handler takes
Release(ev) == ev.kind = "mouseup" /\ onCanvas(ev)

\* C18: a press at (x, y) sets origin and position to (x, y), both components
\* non-negative, and a release that follows it makes the origin (-x, -y) while
\* the position stays (x, y)
PressThenRelease ==
    /\ [](Press(mouse.last) =>
             /\ mouse.mouseIsDown
             /\ mouse.mousePosX = calcMouseX(mouse.last) /\ mouse.mousePosX >= 0
             /\ mouse.mousePosY = calcMouseY(mouse.last) /\ mouse.mousePosY >= 0
             /\ mouse.mouseOriX = mouse.mousePosX /\ mouse.mouseOriY = mouse.mousePosY)
    /\ [][Press(mouse.last) /\ Release(mouse'.last) =>
             /\ ~mouse'.mouseIsDown
             /\ mouse'.mouseOriX = 0 - calcMouseX(mouse.last)
             /\ mouse'.mouseOriY = 0 - calcMouseY(mouse.last)
             /\ mouse'.mousePosX = calcMouseX(mouse.last)
             /\ mouse'.mousePosY = calcMouseY(mouse.last)]_vars

\* a press at the top right corner of the canvas was released, and the origin
\* is the negated press point
Released ==
    /\ Release(mouse.last) /\ ~mouse.mouseIsDown
    /\ mouse.mousePosX = canvas.width /\ mouse.mousePosY = canvas.height
    /\ mouse.mouseOriX = 0 - canvas.width /\ mouse.mouseOriY = 0 - canvas.height

\* ev is an event the claim calls ignored in the state m
Ignored(m, ev) ==
    \/ ev.kind \in {"mousedown", "mouseup", "mousemove"} /\ (ev.button = 2 \/ ~onCanvas(ev))
    \/ ev.kind = "mousemove" /\ ~m.mouseIsDown

\* C19: a mousedown, mouseup or mousemove made with the right button or lying
\* outside the canvas, and any mousemove while the button is not down, leaves
\* position, origin and isDown unchanged
IgnoredEventKeepsState ==
    [][mouse'.last # mouse.last /\ Ignored(mouse, mouse'.last) =>
          MouseState(mouse') = MouseState(mouse)]_vars

\* C20: once stop() has been invoked, and until the play overlay is clicked
\* again, the controller holds no renderer and is not playing, and no renderer
\* of the viewer is registered, animating or left undestroyed by the controller
StopIsFinal ==
    controls[1].stopped =>
        /\ controls[1].glslRenderer = 0
        /\ ~controls[1].isPlaying
        /\ \A s \in Sessions :
              /\ renderer[s].constructed
              /\ s \notin controls[1].awaiting \cup controls[1].binding
              =>
                  /\ s \notin activeViewers
                  /\ renderer[s].animationId = 0
                  /\ raf[s] = {}

\* a step in which the controller starts to play while it held no renderer
PlayTaken == controls[1].glslRenderer = 0 /\ ~controls[1].isPlaying /\ controls'[1].isPlaying

\* a step in which the recreation of renderer s ends without a renderer
RecreateFailed(s) ==
    /\ s \in controls[1].awaiting
    /\ s \notin controls'[1].awaiting \cup controls'[1].binding

NoProgram(s) ==
    renderer[s].constructed /\ (renderer[s].program = 0 \/ renderer[s].isDestroyed)

\* C22: while no program is loaded, render, renderAtTime, captureFrame and
\* captureAtTime change nothing (no GPU call, frameCount and simulated time as
\* they were) and the captures resolve to null
NoProgramNoEffect ==
    \A s \in Sessions :
        NoProgram(s) =>
            /\ render(World, s) = World
            /\ renderAtTime(World, s) = World
            /\ captureFrame(World, s) = World
            /\ captureAtTime(World, s) = World
            /\ captureResolves(World, s) = {"null"}

\* play() ran animate, and with it render, after a load() that failed: a frame
\* is scheduled and nothing was drawn
PlayedWithoutProgram ==
    /\ NoProgram(1) /\ ~renderer[1].isDestroyed
    /\ gl[1] # NewContext
    /\ renderer[1].animationId # 0
    /\ renderer[1].frameCount = 0 /\ renderer[1].currentTime = FpZero
    /\ ~history[1].blind

\* the whole text is a number: an optional sign and digits, nothing else
Numeric(txt) ==
    LET body == IF txt # <<>> /\ Head(txt) \in {"-", "+"} THEN Tail(txt) ELSE txt
    IN body # <<>> /\ LeadingDigits(body) = body

\* the directive's value is malformed
Malformed(directive) ==
    \/ /\ directive.name = "@aspect:"
       /\ (~Numeric(directive.value) \/ parseFloat(directive.value).n <= 0)
    \/ /\ directive.name \in {"@autoplay:", "@hideCode:"}
       /\ directive.value \notin {<<"t", "r", "u", "e">>, <<"f", "a", "l", "s", "e">>}

\* the config field a directive name stands for
FieldOf(name, config) ==
    CASE name = "@aspect:" -> config.aspect
      [] name = "@autoplay:" -> config.autoplay
      [] name = "@hideCode:" -> config.hideCode
      [] name = "@template:" -> config.template
      [] name = "@iChannel2:" -> config.iChannel2
      [] OTHER -> config

\* C23: a directive line whose value is malformed leaves its config field as
\* it was before the line, and an unrecognised directive changes no field
MalformedDirectiveIgnored ==
    [][LET directive == parsing'.line
       IN /\ Malformed(directive) =>
                 FieldOf(directive.name, parsing'.config)
                     = FieldOf(directive.name, parsing.config)
          /\ directive.name = "@speed:" => parsing'.config = parsing.config]_vars

\* the step is an edit of the text field, or a click on reset
Edited == settings'.input \in SettingTexts /\ settings'.input # settings.input

Reset == settings'.input = <<"reset">>

\* C24: maxActiveViewers is always an integer in 1..50; an input in which
\* parseInt finds no number, or a number outside 1..50, leaves it unchanged, any
\* other input stores the number parseInt finds, and reset sets it to 10
MaxViewersInRange ==
    /\ [](settings.maxActiveViewers \in 1..50)
    /\ [][LET numValue == parseInt(settings'.input)
          IN /\ Edited /\ (isNaN(numValue) \/ numValue.n \notin 1..50) =>
                    settings'.maxActiveViewers = settings.maxActiveViewers
             /\ Edited /\ ~isNaN(numValue) /\ numValue.n \in 1..50 =>
                    settings'.maxActiveViewers = numValue.n
             /\ Reset => settings'.maxActiveViewers = 10]_vars

\* C24 as stated: every input that is not a number, or is a number outside
\* 1..50, leaves maxActiveViewers unchanged
NonNumericInputIgnored ==
    [][Edited /\ (~Numeric(settings'.input) \/ parseInt(settings'.input).n \notin 1..50) =>
           settings'.maxActiveViewers = settings.maxActiveViewers]_vars

\* 5 was stored and the input 51 that followed was refused
OutOfRangeRefused == settings.maxActiveViewers = 5 /\ settings.input = <<"5", "1">>

\* the GPU handles renderer s holds in the state w: its program and the
\* textures of its texture manager, each as <<kind, handle>>
Held(w, s) ==
    {<<"texture", w.tm[s].textures[c]>> : c \in {c \in Channels : w.tm[s].textures[c] # 0}}
    \cup (IF w.r[s].program # 0 THEN {<<"program", w.r[s].program>>} ELSE {})

\* the handle is deleted in the context g
Deleted(g, h) ==
    IF h[1] = "texture" THEN g.textures[h[2]] > 0 ELSE g.programs[h[2]] > 0

\* C25: destroy() first cancels the frame callback, then removes the listeners
\* and disconnects the observer, then deletes the textures and the program,
\* and only then leaves activeViewers; onunload destroys every registered
\* renderer before it clears the registry
DestroyInOrder ==
    /\ \A s \in Sessions :
          renderer[s].constructed /\ ~renderer[s].isDestroyed =>
              LET step == destroySteps(World, s)
              IN /\ step[1].raf[s] = {} /\ step[1].r[s].animationId = 0
                 /\ step[1].r[s].eventListeners = renderer[s].eventListeners
                 /\ step[1].r[s].domObserver = renderer[s].domObserver
                 /\ step[2].r[s].eventListeners = 0 /\ ~step[2].r[s].domObserver
                 /\ \A k \in 1..2 : /\ step[k].gl = gl
                                    /\ step[k].tm = textureManager
                                    /\ step[k].r[s].program = renderer[s].program
                 /\ \A h \in Held(World, s) : Deleted(step[4].gl[s], h)
                 /\ Held(step[4], s) = {}
                 /\ \A k \in 1..4 : step[k].av = activeViewers
                 /\ step[5].av = activeViewers \ {s}
    /\ LET u == destroyAll(World, activeViewers)
       IN /\ \A s \in activeViewers : u.r[s].isDestroyed
          /\ u.av \subseteq activeViewers
          /\ onunload(World).av = {}

\* a registered renderer that played with a program and a texture was
\* destroyed: both handles are deleted and it is out of the registry
DestroyedWhilePlaying ==
    /\ renderer[1].isDestroyed /\ history[1].destroyCalls = 1
    /\ history[1].registeredAt > 0 /\ 1 \notin activeViewers
    /\ renderer[1].frameCount > 0
    /\ Len(gl[1].programs) = 1 /\ gl[1].programs[1] = 1
    /\ Len(gl[1].textures) = 1 /\ gl[1].textures[1] = 1

\* session s is Playing: its loop holds the id of a scheduled frame
Playing(s) == renderer[s].animationId # 0

\* C26: at most one frame callback of a session is pending, and it is the one
\* the session holds the id of; a frame renders before it schedules the next
\* one; play() on a session that is Playing renders and schedules nothing
OneFramePending ==
    \A s \in Sessions :
        /\ Cardinality(raf[s]) <= 1
        /\ raf[s] \subseteq {renderer[s].animationId}
        /\ Playing(s) => play(World, s) = World
        /\ \A id \in raf[s] :
              LET fired == [World EXCEPT !.raf[s] = @ \ {id}]
                  next == animate(fired, s)
              IN /\ Cardinality(next.raf[s]) = 1
                 /\ next.r[s] = [render(fired, s).r[s] EXCEPT
                                    !.animationId = next.r[s].animationId]
                 /\ renderer[s].program # 0 /\ renderer[s].refs =>
                        next.r[s].frameCount = renderer[s].frameCount + 1

\* a session that was paused and resumed has rendered frames and has one
\* frame pending
LoopRunning ==
    /\ history[1].resumed /\ Playing(1) /\ ~renderer[1].isDestroyed
    /\ renderer[1].frameCount >= 3
    /\ Cardinality(raf[1]) = 1

\* the frame counter and the simulated time of session s in the state w
Clock(w, s) == <<w.r[s].frameCount, w.r[s].currentTime>>

\* C27: pause() in any state leaves no frame callback pending and the session
\* not Playing, changes neither frameCount nor the simulated time, and does
\* nothing when repeated; while the session is not Playing no callback is
\* pending, so the loop renders nothing, and the clock moves only by one
\* render of captureFrame
PauseCancelsLoop ==
    /\ [](\A s \in Sessions :
             LET p == pause(World, s)
             IN /\ p.raf[s] = {} /\ p.r[s].animationId = 0
                /\ Clock(p, s) = Clock(World, s)
                /\ pause(p, s) = p
                /\ ~Playing(s) => raf[s] = {} /\ p = World)
    /\ [][\A s \in Sessions :
             /\ renderer[s].constructed /\ ~Playing(s) /\ renderer'[s].animationId = 0
             /\ Clock([r |-> renderer'], s) # Clock(World, s)
             => /\ renderer'[s].frameCount = renderer[s].frameCount + 1
                /\ renderer[s].program # 0 /\ ~renderer[s].isDestroyed
                /\ raf'[s] = {}]_vars

\* C27 as stated: while the session is not Playing nothing renders, frameCount
\* and simulated time stay as pause() left them until the next play()
PausedClockStill ==
    [][\A s \in Sessions :
          renderer[s].constructed /\ ~Playing(s) /\ renderer'[s].animationId = 0 =>
              Clock([r |-> renderer'], s) = Clock(World, s)]_vars

\* a session that ran, was paused and resumed is paused again with frames rendered
PausedAgain ==
    /\ history[1].resumed /\ ~Playing(1) /\ ~renderer[1].isDestroyed
    /\ renderer[1].program # 0 /\ renderer[1].frameCount >= 2
    /\ raf[1] = {}

\* the first play() of session s, a program being loaded: history.played turns
FirstPlay(s) ==
    /\ ~history[s].played /\ history'[s].played
    /\ renderer[s].program # 0 /\ renderer[s].refs

\* C28: the first play() of a session starts the clock from 0 whatever was done
\* to the session before: the frame it renders has frame index 1 and the
\* simulated time of one frame step
FirstPlayFromZero ==
    [][\A s \in Sessions :
          FirstPlay(s) =>
              /\ renderer'[s].frameCount = 1
              /\ renderer'[s].currentTime = FpAdd(FpZero, frameDelta)]_vars

\* what renderAtTime and captureAtTime are to leave alone in session s: the
\* renderer's fields (frameCount, currentTime, animationId among them) and the
\* pending frame callbacks
SessionState(w, s) == <<w.r[s], w.raf[s]>>

\* C29: renderAtTime(t) and captureAtTime(t, q) change neither the frame
\* counter, the simulated time, the mouse state nor the play/pause state of the
\* session, in whatever state they find it
StillLeavesSession ==
    /\ [](\A s \in Sessions :
             /\ SessionState(renderAtTime(World, s), s) = SessionState(World, s)
             /\ SessionState(captureAtTime(World, s), s) = SessionState(World, s))
    /\ [][\A s \in Sessions :
             ~history[s].still /\ history'[s].still =>
                 /\ SessionState([r |-> renderer', raf |-> raf'], s) = SessionState(World, s)
                 /\ mouse' = mouse]_vars

\* a frame was captured at a chosen time in a session whose loop has rendered
\* frames and is running
StillWhilePlaying ==
    /\ history[1].still /\ history[1].played /\ Playing(1)
    /\ renderer[1].frameCount >= 2 /\ ~renderer[1].isDestroyed

\* C30: once the code block of a viewer has been processed again, the session
\* made for its old container is destroyed, is not registered and does not play,
\* whether or not its creation had returned when the block was processed again
ReplacedSessionDestroyed ==
    \A s \in Sessions :
        task[s].pc # "idle" /\ dom[task[s].viewer] = "replaced" =>
            /\ renderer[s].constructed => renderer[s].isDestroyed
            /\ s \notin activeViewers
            /\ ~Playing(s)

\* the channels of session s no load has succeeded into
Unloaded(s) == {c \in Channels : history[s].lastGood[c] = <<>>}

NoStageObjectLeft ==
    compileOut.done =>
        LET shaders == compileOut.result.gl.shaders
        IN \A h \in 1..Len(shaders) : shaders[h] >= 1

\* C33: once destroy() has run on a session whose loads all settled before it,
\* every texture object created for the session has been deleted exactly once
TexturesDeletedOnce ==
    \A s \in Sessions :
        renderer[s].isDestroyed /\ ~history[s].lateGl =>
            \A h \in 1..Len(gl[s].textures) : gl[s].textures[h] = 1

\* C34: in every state of a session the simulated time is the sum of frameCount
\* additions of frameDelta to 0.0, each rounded to a double
ClockFollowsFrames ==
    \A s \in Sessions :
        renderer[s].constructed =>
            renderer[s].currentTime = Accumulated(renderer[s].frameCount)

\* C34 as stated: in every state the simulated time is the product
\* frameCount * frameDelta
ClockIsProduct ==
    \A s \in Sessions :
        renderer[s].constructed =>
            renderer[s].currentTime = FpTimes(renderer[s].frameCount, frameDelta)

\* a session that was played, found with frames rendered by a later play(),
\* drew a still frame and was destroyed with seven frames counted
SevenFramesThenDestroyed ==
    /\ history[1].played /\ history[1].resumed /\ history[1].still
    /\ renderer[1].isDestroyed /\ renderer[1].frameCount = 7

\* C35: while the button is recorded as down both components of the click
\* origin are >= 0, while it is recorded as up both are <= 0; a mouseleave with
\* the button down ends the press and negates the origin
OriginSignFollowsButton ==
    /\ [](/\ mouse.mouseIsDown => mouse.mouseOriX >= 0 /\ mouse.mouseOriY >= 0
          /\ ~mouse.mouseIsDown => mouse.mouseOriX <= 0 /\ mouse.mouseOriY <= 0)
    /\ [][mouse.mouseIsDown /\ mouse'.last.kind = "mouseleave" =>
             /\ ~mouse'.mouseIsDown
             /\ mouse'.mouseOriX = 0 - abs(mouse.mouseOriX)
             /\ mouse'.mouseOriY = 0 - abs(mouse.mouseOriY)
             /\ mouse'.mousePosX = mouse.mousePosX
             /\ mouse'.mousePosY = mouse.mousePosY]_vars

\* the pointer left the canvas during a press made away from the canvas edges
LeftWhilePressed ==
    /\ mouse.last.kind = "mouseleave" /\ ~mouse.mouseIsDown
    /\ mouse.mouseOriX < 0 /\ mouse.mouseOriY < 0

\* C37: a destroyed session never has a frame callback scheduled and holds no
\* animation id, which a controller calling play() on it would give it; this
\* covers the controller createGLSLViewer binds to the renderer that
\* generateThumbnailAndCleanup destroys, when the play overlay is clicked
DestroyedNeverPlays ==
    \A s \in Sessions :
        renderer[s].isDestroyed => raf[s] = {} /\ renderer[s].animationId = 0

\* C38: a controller that reports isPlaying = TRUE holds a renderer that is not
\* destroyed and has a frame callback scheduled
PlayingHoldsLiveLoop ==
    \A k \in Sessions :
        controls[k].attached /\ controls[k].isPlaying =>
            LET r == controls[k].glslRenderer
            IN /\ r # 0
               /\ ~renderer[r].isDestroyed
               /\ renderer[r].animationId \in raf[r]

\* C36: at most one constructed, non-destroyed session exists per viewer canvas
OneSessionPerCanvas ==
    \A v \in Viewers :
        Cardinality({s \in Sessions : /\ renderer[s].constructed
                                      /\ ~renderer[s].isDestroyed
                                      /\ renderer[s].canvas = v}) <= 1

\* C39: once createGLSLViewer of a viewer without autoplay has ended in
\* setupLazyRenderer (the thumbnail existed, was generated, or its generation
\* failed), the call's renderer, if it built one, is destroyed and is not in
\* activeViewers
LazyViewerHoldsNoSession ==
    \A s \in Sessions :
        task[s].pc = "lazy" =>
            /\ renderer[s].constructed => renderer[s].isDestroyed
            /\ s \notin activeViewers

====
